---- MODULE Spec2Model ----
(***************************************************************************)
(* Dialogue state machine of the AI medical appointment scheduler.         *)
(*                                                                         *)
(* One conversation is one Streamlit session (app.py) that feeds each user *)
(* message to the compiled LangGraph workflow (main_graph.py).  A turn is  *)
(* one app.invoke: the router picks a node, the node runs, its writes are  *)
(* applied to the channels, the router runs again, until it returns END.   *)
(*                                                                         *)
(* Python values:                                                          *)
(*   Optional[T]   None is <<>>, a present value v is <<v>>                *)
(*   str           a TLA+ string; a text whose characters matter (a user   *)
(*                 reply, a keyword) is a sequence of one-character strings*)
(*   f-string      the sequence of its fragments                           *)
(***************************************************************************)
EXTENDS Integers, Sequences, FiniteSets, TLC

VARIABLES
    ui_messages,   \* st.session_state.messages (app.py)
    agent_state,   \* st.session_state.agent_state (app.py): the last result
    state,         \* AgentState of the running workflow (main_graph.py)
    node,          \* the node the router selected, or END
    pc,            \* where the turn is: "idle", "run", "apply"
    appointments,  \* the booking log, appointments.csv
    outbox,        \* the calls of send_form_email made, each with its result
    turns,         \* user turns taken so far
    errors,        \* turns that ended in an exception so far
    sessions,      \* the sessions open side by side on the one booking log
    hops           \* nodes the running app.invoke has entered so far

vars == <<ui_messages, agent_state, state, node, pc, appointments, outbox, turns, errors,
          sessions, hops>>

\* ------------------------------------------------------------ bounds
MaxTurns == 4
MaxErrors == 1
NumSessions == 2

\* ------------------------------------------------------------ Python values
None == <<>>
Some(v) == <<v>>
Val(o) == o[1]

\* bool(o) of an Optional[str]: None and "" are falsy
Truthy(o) == o # None /\ Val(o) # ""

\* Python's `a or b` on Optional[str]
Or(a, b) == IF Truthy(a) THEN a ELSE b

\* dict.get(key): None when the key is absent
Get(d, k) == IF k \in DOMAIN d THEN d[k] ELSE None

\* f"{o}" of an Optional[str]
Str(o) == IF o = None THEN "None" ELSE Val(o)

END == "__end__"

\* ------------------------------------------------------------ texts
\* str.lower() on the characters the model uses
Lower(c) ==
    CASE c = "Y" -> "y"
      [] c = "N" -> "n"
      [] c = "O" -> "o"
      [] OTHER -> c

lower(s) == [i \in 1..Len(s) |-> Lower(s[i])]

RECURSIVE lstrip(_)
lstrip(s) == IF s # <<>> /\ Head(s) = " " THEN lstrip(Tail(s)) ELSE s

RECURSIVE rstrip(_)
rstrip(s) ==
    IF s # <<>> /\ s[Len(s)] = " " THEN rstrip(SubSeq(s, 1, Len(s) - 1)) ELSE s

strip(s) == rstrip(lstrip(s))

\* Python's `word in text` on strings: substring search
Contains(text, word) ==
    \E i \in 1..(Len(text) - Len(word) + 1) :
        SubSeq(text, i, i + Len(word) - 1) = word

\* the keyword lists of information_confirmation_node
AffirmativeWords ==
    { <<"y","e","s">>,
      <<"c","o","r","r","e","c","t">>,
      <<"r","i","g","h","t">>,
      <<"c","o","n","f","i","r","m">>,
      <<"l","o","o","k","s"," ","g","o","o","d">> }

NegativeWords ==
    { <<"n","o">>,
      <<"w","r","o","n","g">>,
      <<"i","n","c","o","r","r","e","c","t">>,
      <<"c","h","a","n","g","e">>,
      <<"u","p","d","a","t","e">> }

\* what the user may type in one turn
UserTexts ==
    { <<"Y","e","s">>,
      <<"n","o">>,
      <<"i","n","c","o","r","r","e","c","t">>,
      <<" ","m","a","y","b","e">> }

\* ------------------------------------------------------------ messages
UserMsg(text) == [role |-> "user", kind |-> "user", content |-> text]
AssistantMsg(kind, content) ==
    [role |-> "assistant", kind |-> kind, content |-> content]

\* dict equality of two messages
MsgEq(a, b) == a.role = b.role /\ a.kind = b.kind /\ a.content = b.content

\* `msg in log`
MsgIn(m, log) == \E i \in 1..Len(log) : MsgEq(m, log[i])

\* the content of the last user message, scanning the log from its end
RECURSIVE LastUserContent(_)
LastUserContent(log) ==
    IF log = <<>> THEN None
    ELSE IF log[Len(log)].role = "user" THEN Some(log[Len(log)].content)
    ELSE LastUserContent(SubSeq(log, 1, Len(log) - 1))

\* ------------------------------------------------------------ PatientInfo
PatientInfo(n, d, doc, loc) ==
    [full_name |-> n, date_of_birth |-> d,
     preferred_doctor |-> doc, preferred_location |-> loc]

Fields == {"full_name", "date_of_birth", "preferred_doctor", "preferred_location"}

\* raw oracle dict -> PatientInfo, accepting the alias keys
normalize_and_validate_patient_info(data) ==
    PatientInfo(
        Or(Or(Get(data, "fullName"), Get(data, "full_name")), Get(data, "name")),
        Or(Or(Get(data, "dateOfBirth"), Get(data, "date_of_birth")), Get(data, "dob")),
        Or(Or(Get(data, "preferredDoctor"), Get(data, "preferred_doctor")), Get(data, "doctor")),
        Or(Or(Get(data, "preferredLocation"), Get(data, "preferred_location")), Get(data, "location")))

\* any() in place of all()
is_patient_info_complete_any(pi) ==
    \/ Truthy(pi.full_name)
    \/ Truthy(pi.date_of_birth)
    \/ Truthy(pi.preferred_doctor)
    \/ Truthy(pi.preferred_location)

is_patient_info_complete(pi) ==
    /\ Truthy(pi.full_name)
    /\ Truthy(pi.date_of_birth)
    /\ Truthy(pi.preferred_doctor)
    /\ Truthy(pi.preferred_location)

\* the summary without its last line
format_patient_info_for_confirmation_short(pi) ==
    (IF Truthy(pi.full_name)
        THEN << <<"**Name:** ", Val(pi.full_name)>> >> ELSE <<>>)
    \o (IF Truthy(pi.date_of_birth)
        THEN << <<"**Date of Birth:** ", Val(pi.date_of_birth)>> >> ELSE <<>>)
    \o (IF Truthy(pi.preferred_doctor)
        THEN << <<"**Preferred Doctor:** ", Val(pi.preferred_doctor)>> >> ELSE <<>>)

format_patient_info_for_confirmation(pi) ==
    (IF Truthy(pi.full_name)
        THEN << <<"**Name:** ", Val(pi.full_name)>> >> ELSE <<>>)
    \o (IF Truthy(pi.date_of_birth)
        THEN << <<"**Date of Birth:** ", Val(pi.date_of_birth)>> >> ELSE <<>>)
    \o (IF Truthy(pi.preferred_doctor)
        THEN << <<"**Preferred Doctor:** ", Val(pi.preferred_doctor)>> >> ELSE <<>>)
    \o (IF Truthy(pi.preferred_location)
        THEN << <<"**Preferred Location:** ", Val(pi.preferred_location)>> >> ELSE <<>>)

missing_fields(pi) ==
    (IF ~Truthy(pi.full_name) THEN <<"your full name">> ELSE <<>>)
    \o (IF ~Truthy(pi.date_of_birth) THEN <<"your date of birth">> ELSE <<>>)
    \o (IF ~Truthy(pi.preferred_doctor) THEN <<"your preferred doctor">> ELSE <<>>)
    \o (IF ~Truthy(pi.preferred_location) THEN <<"your preferred location">> ELSE <<>>)

\* ", ".join(items), as the sequence of its fragments
RECURSIVE Join(_, _)
Join(sep, items) ==
    IF Len(items) = 0 THEN <<>>
    ELSE IF Len(items) = 1 THEN <<items[1]>>
    ELSE <<items[1], sep>> \o Join(sep, Tail(items))

\* get_missing_info_message joining two fields as it joins three
get_missing_info_message_comma(pi) ==
    LET m == missing_fields(pi)
        tail == ". Could you please provide that information?"
    IN  IF Len(m) = 0 THEN None
        ELSE IF Len(m) = 1 THEN Some(<<"I still need ", m[1], tail>>)
        ELSE Some(<<"I still need ">>
                  \o Join(", ", SubSeq(m, 1, Len(m) - 1))
                  \o <<", and ", m[Len(m)], tail>>)

get_missing_info_message(pi) ==
    LET m == missing_fields(pi)
        tail == ". Could you please provide that information?"
    IN  IF Len(m) = 0 THEN None
        ELSE IF Len(m) = 1 THEN Some(<<"I still need ", m[1], tail>>)
        ELSE IF Len(m) = 2 THEN Some(<<"I still need ", m[1], " and ", m[2], tail>>)
        ELSE Some(<<"I still need ">>
                  \o Join(", ", SubSeq(m, 1, Len(m) - 1))
                  \o <<", and ", m[Len(m)], tail>>)

\* ------------------------------------------------------------ oracle
\* what the field-extraction oracle may answer (greeting_agent_chain.invoke):
\* JSON objects whose keys are any of the accepted aliases, values string or null
Extractions ==
    { [fullName |-> None, dateOfBirth |-> None,
       preferredDoctor |-> None, preferredLocation |-> None],
      [fullName |-> Some(""), name |-> Some("Al Fox"), dob |-> Some("1990-01-01"),
       doctor |-> Some("")],
      [full_name |-> Some("Al Fax"), name |-> Some("Al"),
       dateOfBirth |-> Some("1985-03-15"),
       doctor |-> Some("Smith"), preferredLocation |-> Some("Downtown")] }

\* ------------------------------------------------------------ state
\* AgentState with every key absent (st.session_state.agent_state = {})
EmptyState ==
    [messages |-> <<>>,
     patient_info |-> None,
     patient_id |-> None,
     is_new_patient |-> None,
     available_slots |-> None,
     chosen_slot |-> None,
     appointment_id |-> None,
     patient_email |-> None,
     conversation_stage |-> None]

Stages ==
    {"greeting", "information_confirmation", "patient_lookup", "find_slots",
     "selection_parser", "confirmation", "email_collection", "completed"}

\* state.get('conversation_stage', 'greeting')
StageOf(s) ==
    IF s.conversation_stage = None THEN "greeting" ELSE Val(s.conversation_stage)

\* messages: Annotated[List[dict], operator.add]
operator_add(a, b) == a \o b

\* route_conversation without the find_slots special case
route_conversation_waits_at_find_slots(s) ==
    IF s.messages # <<>> /\ s.messages[Len(s.messages)].role = "assistant" THEN END
    ELSE StageOf(s)

\* route_conversation without the test of the last message
route_conversation_never_waits(s) == StageOf(s)

\* ------------------------------------------------------------ router
route_conversation(s) ==
    LET stage == StageOf(s)
    IN  IF stage = "find_slots" THEN "find_slots"
        ELSE IF s.messages # <<>> /\ s.messages[Len(s.messages)].role = "assistant"
             THEN END
        ELSE stage

\* router_map with "completed" wired to a node instead of END
router_map_completed_to_node(key) ==
    CASE key = "completed" -> "email_collection"
      [] key = END -> END
      [] OTHER -> key

router_map(key) ==
    CASE key = "greeting" -> "greeting"
      [] key = "information_confirmation" -> "information_confirmation"
      [] key = "patient_lookup" -> "patient_lookup"
      [] key = "find_slots" -> "find_slots"
      [] key = "selection_parser" -> "selection_parser"
      [] key = "confirmation" -> "confirmation"
      [] key = "email_collection" -> "email_collection"
      [] key = "completed" -> END
      [] key = END -> END

\* ------------------------------------------------------------ nodes
AddMessage(s, m) == [s EXCEPT !.messages = Append(@, m)]

WelcomeText ==
    <<"Hello! I'm here to help you schedule a medical appointment.">>

\* the first-turn test of greeting_node
IsFirstMessage(s) == Len(s.messages) = 1 /\ s.patient_info = None

\* the merge with the operands of `or` swapped: a known field is never updated
MergePatientInfo_existing_wins(new, existing) ==
    PatientInfo(
        Or(existing.full_name, new.full_name),
        Or(existing.date_of_birth, new.date_of_birth),
        Or(existing.preferred_doctor, new.preferred_doctor),
        Or(existing.preferred_location, new.preferred_location))

\* no merge: the new extraction replaces the existing patient_info
MergePatientInfo_overwrites(new, existing) == new

\* a merge that drops a value extracted again
MergePatientInfo_drops_repeats(new, existing) ==
    LET pick(a, b) == IF a = b THEN None ELSE Or(a, b)
    IN  PatientInfo(
            pick(new.full_name, existing.full_name),
            pick(new.date_of_birth, existing.date_of_birth),
            pick(new.preferred_doctor, existing.preferred_doctor),
            pick(new.preferred_location, existing.preferred_location))

\* the merge of a new extraction into the existing patient_info
MergePatientInfo(new, existing) ==
    PatientInfo(
        Or(new.full_name, existing.full_name),
        Or(new.date_of_birth, existing.date_of_birth),
        Or(new.preferred_doctor, existing.preferred_doctor),
        Or(new.preferred_location, existing.preferred_location))

greeting_node(s, raw_info) ==
    IF IsFirstMessage(s)
    THEN [AddMessage(s, AssistantMsg("welcome", WelcomeText))
            EXCEPT !.conversation_stage = Some("greeting")]
    ELSE
        LET patient_info == normalize_and_validate_patient_info(raw_info)
            updated_info ==
                IF s.patient_info # None
                THEN MergePatientInfo(patient_info, Val(s.patient_info))
                ELSE patient_info
            s1 == [s EXCEPT !.patient_info = Some(updated_info)]
        IN  IF is_patient_info_complete(updated_info)
            THEN [s1 EXCEPT !.conversation_stage = Some("information_confirmation")]
            ELSE [AddMessage(s1, AssistantMsg("missing_info",
                                Val(get_missing_info_message(updated_info))))
                    EXCEPT !.conversation_stage = Some("greeting")]

\* last_user_message of information_confirmation_node: lower().strip() of the
\* last user message, or None
LastUserMessageLowered(s) ==
    LET c == LastUserContent(s.messages)
    IN  IF c = None THEN None ELSE Some(strip(lower(Val(c))))

IsAffirmative(text) ==
    text # None /\ Val(text) # <<>>
    /\ \E word \in AffirmativeWords : Contains(Val(text), word)

IsNegative(text) ==
    text # None /\ Val(text) # <<>>
    /\ \E word \in NegativeWords : Contains(Val(text), word)

UpdatePromptText ==
    <<"No problem! Please tell me what information you'd like to update, and I'll make the changes.">>

ConfirmationPromptText(pi) ==
    <<"Thank you! Let me confirm the information you've provided:",
      format_patient_info_for_confirmation(pi),
      "Is this information correct? Please say 'yes' to confirm or 'no' if you need to make any changes.">>

\* the two keyword tests in the other order
information_confirmation_node_negative_first(s) ==
    LET last_user_message == LastUserMessageLowered(s)
    IN  IF IsNegative(last_user_message)
        THEN [AddMessage(s, AssistantMsg("update_prompt", UpdatePromptText))
                EXCEPT !.conversation_stage = Some("greeting")]
        ELSE IF IsAffirmative(last_user_message)
        THEN [s EXCEPT !.conversation_stage = Some("patient_lookup")]
        ELSE [AddMessage(s, AssistantMsg("confirm_info",
                            ConfirmationPromptText(Val(s.patient_info))))
                EXCEPT !.conversation_stage = Some("information_confirmation")]

information_confirmation_node(s) ==
    LET last_user_message == LastUserMessageLowered(s)
    IN  IF IsAffirmative(last_user_message)
        THEN [s EXCEPT !.conversation_stage = Some("patient_lookup")]
        ELSE IF IsNegative(last_user_message)
        THEN [AddMessage(s, AssistantMsg("update_prompt", UpdatePromptText))
                EXCEPT !.conversation_stage = Some("greeting")]
        ELSE [AddMessage(s, AssistantMsg("confirm_info",
                            ConfirmationPromptText(Val(s.patient_info))))
                EXCEPT !.conversation_stage = Some("information_confirmation")]

\* ------------------------------------------------------------ patient store
\* patients.csv: rows of the store (read-only)
Patients ==
    << [patient_id |-> "P001", first_name |-> "Al", last_name |-> "Fox",
        date_of_birth |-> "1990-01-01", visit_history |-> 3],
       [patient_id |-> "P002", first_name |-> "Bo", last_name |-> "Yu",
        date_of_birth |-> "1985-03-15", visit_history |-> 0],
       [patient_id |-> "P003", first_name |-> "Al", last_name |-> "Fax",
        date_of_birth |-> "1970-07-07", visit_history |-> 1] >>

FullName(row) == <<row.first_name, " ", row.last_name>>

\* the query names the conversation can produce, as first + ' ' + last
NameParts(full_name) ==
    CASE full_name = "Al Fox" -> <<"Al", " ", "Fox">>
      [] full_name = "Al Fax" -> <<"Al", " ", "Fax">>
      [] full_name = "Bo Yu" -> <<"Bo", " ", "Yu">>
      [] OTHER -> <<full_name>>

\* thefuzz similarity score (0..100) of a query against a stored full name
FuzzScore(query, name) ==
    IF query = name THEN 100
    ELSE IF {query, name} = {<<"Al", " ", "Fax">>, <<"Al", " ", "Fox">>} THEN 83
    ELSE 0

ScoreCutoff == 80

\* process.extractOne(full_name, names, score_cutoff=80): the first name of
\* the highest score, provided the score reaches the cutoff
extractOne(query, names) ==
    LET best == CHOOSE i \in 1..Len(names) :
                    \A j \in 1..Len(names) :
                        \/ FuzzScore(query, names[i]) > FuzzScore(query, names[j])
                        \/ (FuzzScore(query, names[i]) = FuzzScore(query, names[j]) /\ i <= j)
    IN  IF Len(names) = 0 THEN None
        ELSE IF FuzzScore(query, names[best]) >= ScoreCutoff THEN Some(names[best])
        ELSE None

\* the names and dates of birth a lookup may be asked for
QueryNames == {"Al Fox", "Al Fax", "Bo Yu", "Cy Ng"}
QueryDobs == {"1990-01-01", "1985-03-15", "1970-07-07"}

\* search_patient taking the best-matching name whatever the date of birth
search_patient_any_dob(full_name, dob) ==
    LET names == [i \in 1..Len(Patients) |-> FullName(Patients[i])]
        best_match == extractOne(NameParts(full_name), names)
        hits == { i \in 1..Len(Patients) :
                    /\ best_match # None
                    /\ FullName(Patients[i]) = Val(best_match) }
    IN  IF Len(Patients) = 0 \/ best_match = None \/ hits = {} THEN None
        ELSE Some(Patients[CHOOSE i \in hits : \A j \in hits : i <= j])

search_patient(full_name, dob) ==
    LET names == [i \in 1..Len(Patients) |-> FullName(Patients[i])]
        best_match == extractOne(NameParts(full_name), names)
        hits == { i \in 1..Len(Patients) :
                    /\ best_match # None
                    /\ FullName(Patients[i]) = Val(best_match)
                    /\ Patients[i].date_of_birth = dob }
    IN  IF Len(Patients) = 0 \/ best_match = None \/ hits = {} THEN None
        ELSE Some(Patients[CHOOSE i \in hits : \A j \in hits : i <= j])

\* is_returning_patient taking every patient on file for a returning one
is_returning_patient_on_file(patient_id) ==
    \E i \in 1..Len(Patients) : Patients[i].patient_id = patient_id

is_returning_patient(patient_id) ==
    \E i \in 1..Len(Patients) :
        /\ Patients[i].patient_id = patient_id
        /\ \A j \in 1..Len(Patients) : Patients[j].patient_id = patient_id => i <= j
        /\ Patients[i].visit_history > 0

\* lookup_patient: the found result, or None where it raises PatientNotFoundError
lookup_patient(patient_name, patient_dob) ==
    LET patient_record == search_patient(patient_name, patient_dob)
    IN  IF patient_record # None
        THEN Some([patient_id |-> Val(patient_record).patient_id,
                   is_new_patient |-> ~is_returning_patient(Val(patient_record).patient_id)])
        ELSE None

\* patient_lookup_node with the miss ending the conversation
patient_lookup_node_miss_stops(s) ==
    LET patient_info == Val(s.patient_info)
        lookup_result == lookup_patient(Val(patient_info.full_name),
                                        Val(patient_info.date_of_birth))
    IN  IF lookup_result # None
        THEN [AddMessage(s, AssistantMsg("found", <<"Perfect! I've found your file.">>))
                EXCEPT !.patient_id = Some(Val(lookup_result).patient_id),
                       !.is_new_patient = Some(Val(lookup_result).is_new_patient),
                       !.conversation_stage = Some("find_slots")]
        ELSE [AddMessage(s, AssistantMsg("first_time", <<"No patient found.">>))
                EXCEPT !.conversation_stage = Some("completed")]

patient_lookup_node(s) ==
    LET patient_info == Val(s.patient_info)
        lookup_result == lookup_patient(Val(patient_info.full_name),
                                        Val(patient_info.date_of_birth))
        where == <<"slots for Dr. ", Str(patient_info.preferred_doctor),
                   " at ", Str(patient_info.preferred_location)>>
    IN  IF lookup_result # None
        THEN [AddMessage(s, AssistantMsg("found",
                    <<"Perfect! I've found your file. You are a ",
                      IF Val(lookup_result).is_new_patient THEN "new" ELSE "returning",
                      " patient.">> \o where))
                EXCEPT !.patient_id = Some(Val(lookup_result).patient_id),
                       !.is_new_patient = Some(Val(lookup_result).is_new_patient),
                       !.conversation_stage = Some("find_slots")]
        ELSE [AddMessage(s, AssistantMsg("first_time",
                    <<"Thank you! It seems this is your first time with us. Welcome!">>
                    \o where))
                EXCEPT !.patient_id = Some("NEW_PATIENT"),
                       !.is_new_patient = Some(TRUE),
                       !.conversation_stage = Some("find_slots")]

\* ------------------------------------------------------------ calendar
\* a datetime: year, day of the year, minute of the day
Dt(y, d, m) == [year |-> y, day |-> d, minute |-> m]

\* minutes since year 0, none of the years at hand being a leap year
Ord(dt) == (dt.year * 365 + dt.day) * 1440 + dt.minute

AddMinutes(dt, n) == [dt EXCEPT !.minute = @ + n]
AddDays(dt, n) == [dt EXCEPT !.day = @ + n]

\* settings.APPOINTMENT_DURATIONS, in minutes
NewPatientDuration == 60
ReturningPatientDuration == 30

\* find_slots_node looks timedelta(days=14) ahead
LookaheadDays == 14

\* doctor_schedules.xlsx: working blocks, in row order; a doctor's name is the
\* sequence of its fragments (one row's name lacks the "Dr. " title)
Schedule ==
    << [doctor_name |-> <<"Dr. ", "Smith">>,
        start_datetime |-> Dt(2025, 251, 540), end_datetime |-> Dt(2025, 251, 720)],
       [doctor_name |-> <<"Lee, MD">>,
        start_datetime |-> Dt(2025, 251, 600), end_datetime |-> Dt(2025, 251, 660)],
       [doctor_name |-> <<"Dr. ", "Smith">>,
        start_datetime |-> Dt(2026, 3, 540), end_datetime |-> Dt(2026, 3, 600)] >>

\* datetime.now() values a conversation may run at
Clock == { Dt(2025, 251, 480), Dt(2025, 252, 480) }

\* strftime('%A, %B %d'): the year is not part of the text
DateStr(dt) ==
    CASE dt.day = 251 -> "Monday, September 08"
      [] dt.day = 252 -> "Tuesday, September 09"
      [] dt.day = 3 -> "Saturday, January 03"

\* strftime('%I:%M %p')
TimeStr(dt) ==
    CASE dt.minute = 540 -> "09:00 AM"
      [] dt.minute = 570 -> "09:30 AM"
      [] dt.minute = 600 -> "10:00 AM"
      [] dt.minute = 630 -> "10:30 AM"
      [] dt.minute = 660 -> "11:00 AM"
      [] dt.minute = 690 -> "11:30 AM"

\* f"{doctor_name} on {date} at {time}"
FormatSlot(doctor_name, slot_start) ==
    doctor_name \o <<" on ", DateStr(slot_start), " at ", TimeStr(slot_start)>>

\* _load_booked_slots: the set of date+time of the booking log's records
booked_slots(log) ==
    { Dt(log[i].appointment_date[1], log[i].appointment_date[2], log[i].appointment_time) :
        i \in 1..Len(log) }

\* the while loop over one schedule row
RECURSIVE SlotsOfRow(_, _, _, _)
SlotsOfRow(row, slot_start, duration, booked) ==
    IF Ord(AddMinutes(slot_start, duration)) <= Ord(row.end_datetime)
    THEN (IF slot_start \notin booked
            THEN <<FormatSlot(row.doctor_name, slot_start)>> ELSE <<>>)
         \o SlotsOfRow(row, AddMinutes(slot_start, duration), duration, booked)
    ELSE <<>>

RECURSIVE SlotsOfRows(_, _, _, _, _)
SlotsOfRows(rows, start_date, end_date, duration, booked) ==
    IF rows = <<>> THEN <<>>
    ELSE (IF /\ Ord(Head(rows).start_datetime) >= Ord(start_date)
             /\ Ord(Head(rows).start_datetime) < Ord(end_date)
            THEN SlotsOfRow(Head(rows), Head(rows).start_datetime, duration, booked)
            ELSE <<>>)
         \o SlotsOfRows(Tail(rows), start_date, end_date, duration, booked)

\* find_available_slots without the conflict check
find_available_slots_ignores_booked(is_new_patient, start_date, end_date, booked) ==
    SlotsOfRows(Schedule, start_date, end_date,
                IF is_new_patient THEN NewPatientDuration ELSE ReturningPatientDuration,
                {})

find_available_slots(is_new_patient, start_date, end_date, booked) ==
    SlotsOfRows(Schedule, start_date, end_date,
                IF is_new_patient THEN NewPatientDuration ELSE ReturningPatientDuration,
                booked)

\* only the first five slots are shown
ShownSlots == 5

\* find_slots_node listing every slot, not the first five
find_slots_node_lists_all(s, clock, log) ==
    LET is_new == IF s.is_new_patient = None THEN TRUE ELSE Val(s.is_new_patient)
        available_slots ==
            find_available_slots(is_new, clock, AddDays(clock, LookaheadDays),
                                 booked_slots(log))
        slots_str == [i \in 1..Len(available_slots) |-> <<i, ". ", available_slots[i]>>]
        s1 == [s EXCEPT !.available_slots = Some(available_slots)]
    IN  IF available_slots # <<>>
        THEN [AddMessage(s1, AssistantMsg("slots",
                    <<"Great! Here are some available ",
                      IF is_new THEN "60 minutes" ELSE "30 minutes",
                      " appointment slots with Dr. ", "", " at ", "",
                      slots_str, "Which slot would you prefer?">>))
                EXCEPT !.conversation_stage = Some("selection_parser")]
        ELSE [AddMessage(s1, AssistantMsg("no_slots", <<"I'm sorry">>))
                EXCEPT !.conversation_stage = Some("completed")]

find_slots_node(s, clock, log) ==
    LET is_new == IF s.is_new_patient = None THEN TRUE ELSE Val(s.is_new_patient)
        available_slots ==
            find_available_slots(is_new, clock, AddDays(clock, LookaheadDays),
                                 booked_slots(log))
        shown == SubSeq(available_slots, 1,
                        IF Len(available_slots) < ShownSlots
                        THEN Len(available_slots) ELSE ShownSlots)
        slots_str == [i \in 1..Len(shown) |-> <<i, ". ", shown[i]>>]
        patient_info == Val(s.patient_info)
        s1 == [s EXCEPT !.available_slots = Some(available_slots)]
    IN  IF available_slots # <<>>
        THEN [AddMessage(s1, AssistantMsg("slots",
                    <<"Great! Here are some available ",
                      IF is_new THEN "60 minutes" ELSE "30 minutes",
                      " appointment slots with Dr. ", Str(patient_info.preferred_doctor),
                      " at ", Str(patient_info.preferred_location),
                      slots_str, "Which slot would you prefer?">>))
                EXCEPT !.conversation_stage = Some("selection_parser")]
        ELSE [AddMessage(s1, AssistantMsg("no_slots",
                    <<"I'm sorry, but I couldn't find any available slots with Dr. ",
                      Str(patient_info.preferred_doctor),
                      " at ", Str(patient_info.preferred_location),
                      " in the next two weeks.">>))
                EXCEPT !.conversation_stage = Some("completed")]

\* ------------------------------------------------------------ selection
\* bool(o) of an Optional[int]: None and 0 are falsy
TruthyInt(o) == o # None /\ Val(o) # 0
OrInt(a, b) == IF TruthyInt(a) THEN a ELSE b

\* bool(o) of an Optional[text]: None and the empty text are falsy
TruthyText(o) == o # None /\ Val(o) # <<>>
OrText(a, b) == IF TruthyText(a) THEN a ELSE b

AMBIGUOUS == <<"AMBIGUOUS">>

\* what the selection oracle may answer (selection_parser_chain.invoke)
Selections ==
    { [slotNumber |-> Some(1), selectedSlot |-> Some(AMBIGUOUS)],
      [slot_number |-> Some(6), selectedSlot |-> None],
      [slotNumber |-> Some(0), number |-> Some(2), slot |-> Some(<<"Lee, MD">>)],
      [selectedSlot |-> Some(AMBIGUOUS), slotNumber |-> None],
      [selected_slot |-> Some(<<"Lee, MD">>)] }

\* the first available slot whose text contains, or is contained in, the text
FirstTextMatch(selected_slot, slots) ==
    LET hits == { i \in 1..Len(slots) :
                    Contains(slots[i], selected_slot) \/ Contains(selected_slot, slots[i]) }
    IN  IF hits = {} THEN None
        ELSE Some(slots[CHOOSE i \in hits : \A j \in hits : i <= j])

AmbiguousText ==
    <<"I'm sorry, I couldn't determine which slot you prefer. Please reply with the number of your chosen option (e.g., '1', 'Option 2').">>

\* selection_parser_node with the unparseable selection sent back to the lookup
selection_parser_node_restarts_lookup(s, result) ==
    LET slots == Val(s.available_slots)
        slot_number ==
            OrInt(OrInt(Get(result, "slotNumber"), Get(result, "slot_number")),
                  Get(result, "number"))
    IN  IF slot_number # None /\ 1 <= Val(slot_number) /\ Val(slot_number) <= Len(slots)
        THEN [s EXCEPT !.chosen_slot = Some(slots[Val(slot_number)]),
                       !.conversation_stage = Some("confirmation")]
        ELSE [s EXCEPT !.patient_info =
                        Some([Val(s.patient_info) EXCEPT !.full_name = Some("Bo Yu")]),
                       !.conversation_stage = Some("patient_lookup")]

\* selection_parser_node trying the slot text before the slot number
selection_parser_node_text_first(s, result) ==
    LET slots == Val(s.available_slots)
        slot_number ==
            OrInt(OrInt(Get(result, "slotNumber"), Get(result, "slot_number")),
                  Get(result, "number"))
        selected_slot ==
            OrText(OrText(Get(result, "selectedSlot"), Get(result, "selected_slot")),
                   Get(result, "slot"))
        by_text == IF TruthyText(selected_slot) /\ Val(selected_slot) # AMBIGUOUS
                   THEN FirstTextMatch(Val(selected_slot), slots) ELSE None
    IN  IF by_text # None
        THEN [s EXCEPT !.chosen_slot = by_text,
                       !.conversation_stage = Some("confirmation")]
        ELSE IF slot_number # None /\ 1 <= Val(slot_number) /\ Val(slot_number) <= Len(slots)
        THEN [s EXCEPT !.chosen_slot = Some(slots[Val(slot_number)]),
                       !.conversation_stage = Some("confirmation")]
        ELSE [AddMessage(s, AssistantMsg("ambiguous", AmbiguousText))
                EXCEPT !.conversation_stage = Some("find_slots")]

\* selection_parser_node settling an unparseable selection on the first slot
selection_parser_node_picks_first(s, result) ==
    LET slots == Val(s.available_slots)
        slot_number ==
            OrInt(OrInt(Get(result, "slotNumber"), Get(result, "slot_number")),
                  Get(result, "number"))
    IN  IF slot_number # None /\ 1 <= Val(slot_number) /\ Val(slot_number) <= Len(slots)
        THEN [s EXCEPT !.chosen_slot = Some(slots[Val(slot_number)]),
                       !.conversation_stage = Some("confirmation")]
        ELSE [s EXCEPT !.chosen_slot = Some(slots[1]),
                       !.conversation_stage = Some("confirmation")]

selection_parser_node(s, result) ==
    LET slots == Val(s.available_slots)
        slot_number ==
            OrInt(OrInt(Get(result, "slotNumber"), Get(result, "slot_number")),
                  Get(result, "number"))
        selected_slot ==
            OrText(OrText(Get(result, "selectedSlot"), Get(result, "selected_slot")),
                   Get(result, "slot"))
        by_text == IF TruthyText(selected_slot) /\ Val(selected_slot) # AMBIGUOUS
                   THEN FirstTextMatch(Val(selected_slot), slots) ELSE None
    IN  IF slot_number # None /\ 1 <= Val(slot_number) /\ Val(slot_number) <= Len(slots)
        THEN [s EXCEPT !.chosen_slot = Some(slots[Val(slot_number)]),
                       !.conversation_stage = Some("confirmation")]
        ELSE IF by_text # None
        THEN [s EXCEPT !.chosen_slot = by_text,
                       !.conversation_stage = Some("confirmation")]
        ELSE [AddMessage(s, AssistantMsg("ambiguous", AmbiguousText))
                EXCEPT !.conversation_stage = Some("find_slots")]

\* ------------------------------------------------------------ booking
\* index of the first fragment equal to f at or after position from, 0 if none
RECURSIVE IndexFrom(_, _, _)
IndexFrom(text, f, from) ==
    IF from > Len(text) THEN 0
    ELSE IF text[from] = f THEN from
    ELSE IndexFrom(text, f, from + 1)

\* strptime of the date and time texts, given the year
ParseDateTime(date_str, time_str, year) ==
    LET days == { d \in {3, 251, 252} : DateStr(Dt(year, d, 0)) = date_str }
        minutes == { m \in {540, 570, 600, 630, 660, 690} : TimeStr(Dt(year, 251, m)) = time_str }
    IN  IF days = {} \/ minutes = {} THEN None
        ELSE Some(Dt(year, CHOOSE d \in days : TRUE, CHOOSE m \in minutes : TRUE))

\* _parse_slot_string: r"(Dr\. .+?) on (.+?) at (.+)" and strptime with the
\* current year; None stands for the empty dict it returns on failure
parse_slot_string(slot_string, clock) ==
    LET dr == IndexFrom(slot_string, "Dr. ", 1)
        on == IF dr = 0 THEN 0 ELSE IndexFrom(slot_string, " on ", dr + 2)
        at == IF on = 0 THEN 0 ELSE IndexFrom(slot_string, " at ", on + 2)
        dt == IF at = on + 2 /\ Len(slot_string) = at + 1
              THEN ParseDateTime(slot_string[on + 1], slot_string[at + 1], clock.year)
              ELSE None
    IN  IF dr = 0 \/ on = 0 \/ at = 0 \/ at = Len(slot_string) \/ dt = None THEN None
        ELSE Some([doctor_name |-> SubSeq(slot_string, dr, on - 1),
                   appointment_date |-> <<Val(dt).year, Val(dt).day>>,
                   appointment_time |-> Val(dt).minute])

\* the characters of the patient identifiers at hand
IdChars(patient_id) ==
    CASE patient_id = "P001" -> <<"P", "0", "0", "1">>
      [] patient_id = "P002" -> <<"P", "0", "0", "2">>
      [] patient_id = "P003" -> <<"P", "0", "0", "3">>
      [] patient_id = "NEW_PATIENT"
            -> <<"N", "E", "W", "_", "P", "A", "T", "I", "E", "N", "T">>

\* patient_id[-4:] with nothing of the patient left in it
Last4_dropped(patient_id) == <<>>

\* patient_id[-4:]
Last4(patient_id) ==
    LET chars == IdChars(patient_id)
    IN  SubSeq(chars, IF Len(chars) > 4 THEN Len(chars) - 3 ELSE 1, Len(chars))

\* book_appointment writing a record of a slot that does not parse as well
book_appointment_unparsed(patient_id, chosen_slot, is_new_patient, clock, written) ==
    LET parsed_slot == parse_slot_string(chosen_slot, clock)
    IN  IF ~written THEN None
        ELSE Some([appointment_id |-> <<"APP", Ord(clock), Last4(patient_id)>>,
                   patient_id |-> patient_id,
                   doctor_name |-> IF parsed_slot = None THEN chosen_slot
                                   ELSE Val(parsed_slot).doctor_name,
                   appointment_date |-> IF parsed_slot = None THEN <<clock.year, clock.day>>
                                        ELSE Val(parsed_slot).appointment_date,
                   appointment_time |-> IF parsed_slot = None THEN clock.minute
                                        ELSE Val(parsed_slot).appointment_time,
                   is_new_patient |-> is_new_patient,
                   status |-> "Confirmed"])

\* book_appointment: the record it appends, or None where it raises: on a slot
\* that does not parse, or where the write to appointments.csv fails
book_appointment(patient_id, chosen_slot, is_new_patient, clock, written) ==
    LET parsed_slot == parse_slot_string(chosen_slot, clock)
    IN  IF parsed_slot = None \/ ~written THEN None
        ELSE Some([appointment_id |-> <<"APP", Ord(clock), Last4(patient_id)>>,
                   patient_id |-> patient_id,
                   doctor_name |-> Val(parsed_slot).doctor_name,
                   appointment_date |-> Val(parsed_slot).appointment_date,
                   appointment_time |-> Val(parsed_slot).appointment_time,
                   is_new_patient |-> is_new_patient,
                   status |-> "Confirmed"])

BookingErrorText ==
    <<"I'm sorry, there was an error while trying to book your appointment. Please try again.">>

\* a failed booking sent back to selection_parser instead of find_slots
confirmation_node_retries_selection(s, clock, written) ==
    LET booked == book_appointment(Val(s.patient_id), Val(s.chosen_slot),
                                   Val(s.is_new_patient), clock, written)
    IN  IF booked # None
        THEN [AddMessage(s, AssistantMsg("booked", <<"Excellent!">>))
                EXCEPT !.appointment_id = Some(Val(booked).appointment_id),
                       !.conversation_stage = Some("email_collection")]
        ELSE [AddMessage(s, AssistantMsg("booking_error", BookingErrorText))
                EXCEPT !.conversation_stage = Some("selection_parser")]

\* confirmation_node going on to email_collection after a failed booking
confirmation_node_ignores_error(s, clock, written) ==
    LET booked == book_appointment(Val(s.patient_id), Val(s.chosen_slot),
                                   Val(s.is_new_patient), clock, written)
    IN  IF booked # None
        THEN [AddMessage(s, AssistantMsg("booked",
                    <<"Excellent!", Val(booked).appointment_id,
                      "What is a good email address to send the intake form to?">>))
                EXCEPT !.appointment_id = Some(Val(booked).appointment_id),
                       !.conversation_stage = Some("email_collection")]
        ELSE [AddMessage(s, AssistantMsg("booking_error", BookingErrorText))
                EXCEPT !.conversation_stage = Some("email_collection")]

\* confirmation_node taking the user back to the selection after a booking
confirmation_node_books_again(s, clock, written) ==
    LET booked == book_appointment(Val(s.patient_id), Val(s.chosen_slot),
                                   Val(s.is_new_patient), clock, written)
    IN  IF booked # None
        THEN [AddMessage(s, AssistantMsg("booked",
                    <<"Excellent!", Val(booked).appointment_id>>))
                EXCEPT !.appointment_id = Some(Val(booked).appointment_id),
                       !.conversation_stage = Some("selection_parser")]
        ELSE [AddMessage(s, AssistantMsg("booking_error", BookingErrorText))
                EXCEPT !.conversation_stage = Some("find_slots")]

confirmation_node(s, clock, written) ==
    LET booked == book_appointment(Val(s.patient_id), Val(s.chosen_slot),
                                   Val(s.is_new_patient), clock, written)
        patient_info == Val(s.patient_info)
    IN  IF booked # None
        THEN [AddMessage(s, AssistantMsg("booked",
                    <<"Excellent! Your appointment is confirmed with ID ",
                      Val(booked).appointment_id, Val(s.chosen_slot),
                      Str(patient_info.preferred_doctor),
                      Str(patient_info.preferred_location),
                      "What is a good email address to send the intake form to?">>))
                EXCEPT !.appointment_id = Some(Val(booked).appointment_id),
                       !.conversation_stage = Some("email_collection")]
        ELSE [AddMessage(s, AssistantMsg("booking_error", BookingErrorText))
                EXCEPT !.conversation_stage = Some("find_slots")]

\* ------------------------------------------------------------ email
\* what the email oracle may answer (insurance_parser_chain.invoke)
EmailExtractions ==
    { [patientEmail |-> None],
      [patientEmail |-> Some(""), patient_email |-> None],
      [email |-> Some("al@fox.org")] }

normalize_and_validate_insurance_info(data) ==
    [patient_email |->
        Or(Or(Get(data, "patientEmail"), Get(data, "patient_email")), Get(data, "email"))]

\* send_form_email never raises: it returns whether the mail went out
send_form_email(recipient_email, patient_name, delivered) ==
    [recipient_email |-> recipient_email, patient_name |-> patient_name,
     returned |-> delivered]

EmailRepromptText ==
    <<"I didn't catch a valid email address. Could you please provide it so I can send the forms?">>

\* email_collection_node asking again when the send reports failure
email_collection_node_retries_send(s, raw_info, delivered) ==
    LET insurance_info == normalize_and_validate_insurance_info(raw_info)
    IN  IF Truthy(insurance_info.patient_email) /\ delivered
        THEN [AddMessage(s, AssistantMsg("all_set",
                    <<"Perfect! I've sent the intake form to ",
                      Val(insurance_info.patient_email)>>))
                EXCEPT !.patient_email = insurance_info.patient_email,
                       !.conversation_stage = Some("completed")]
        ELSE [AddMessage(s, AssistantMsg("email_reprompt", EmailRepromptText))
                EXCEPT !.conversation_stage = Some("email_collection")]

\* delivered: what send_form_email returns, which the handler does not read
\* email_collection_node completing without a word
email_collection_node_silent(s, raw_info, delivered) ==
    LET insurance_info == normalize_and_validate_insurance_info(raw_info)
    IN  IF Truthy(insurance_info.patient_email)
        THEN [s EXCEPT !.patient_email = insurance_info.patient_email,
                       !.conversation_stage = Some("completed")]
        ELSE [AddMessage(s, AssistantMsg("email_reprompt", EmailRepromptText))
                EXCEPT !.conversation_stage = Some("email_collection")]

email_collection_node(s, raw_info, delivered) ==
    LET insurance_info == normalize_and_validate_insurance_info(raw_info)
        patient_info == Val(s.patient_info)
    IN  IF Truthy(insurance_info.patient_email)
        THEN [AddMessage(s, AssistantMsg("all_set",
                    <<"Perfect! I've sent the intake form to ",
                      Val(insurance_info.patient_email),
                      s.appointment_id, Str(patient_info.full_name), s.chosen_slot,
                      Str(patient_info.preferred_doctor),
                      Str(patient_info.preferred_location)>>))
                EXCEPT !.patient_email = insurance_info.patient_email,
                       !.conversation_stage = Some("completed")]
        ELSE [AddMessage(s, AssistantMsg("email_reprompt", EmailRepromptText))
                EXCEPT !.conversation_stage = Some("email_collection")]

\* ------------------------------------------------------------ the session
\* appointments.csv as a conversation may find it: empty, or holding a record
\* booked earlier
InitialLogs ==
    { <<>>,
      << [appointment_id |-> <<"APP", 0, <<"P", "0", "0", "2">>>>,
          patient_id |-> "P002",
          doctor_name |-> <<"Dr. ", "Smith">>,
          appointment_date |-> <<2025, 251>>,
          appointment_time |-> 600,
          is_new_patient |-> FALSE,
          status |-> "Confirmed"] >> }

Init ==
    /\ ui_messages = <<>>
    /\ agent_state = EmptyState
    /\ state = EmptyState
    /\ node = END
    /\ pc = "idle"
    /\ appointments \in InitialLogs
    /\ outbox = <<>>
    /\ turns = 0
    /\ errors = 0
    /\ sessions = <<>>
    /\ hops = 0

\* app.py: "Add only new messages that aren't already in our state": the
\* messages of the result from position i on, each unless the session's log,
\* as grown so far, holds an equal one
RECURSIVE Distinct(_)
Distinct(msgs) ==
    IF msgs = <<>> THEN <<>>
    ELSE <<Head(msgs)>>
         \o Distinct(SelectSeq(Tail(msgs), LAMBDA m : ~MsgEq(m, Head(msgs))))

AddNewMessages(session, agent_messages, i) ==
    session \o Distinct(SelectSeq(SubSeq(agent_messages, i, Len(agent_messages)),
                                  LAMBDA m : ~MsgIn(m, session)))

\* the conditional edge taken once the channels hold s, and, where it leads to
\* END, app.py taking the result of app.invoke into the session (ui being the
\* session's log)
Route(s, ui) ==
    /\ node' = router_map(route_conversation(s))
    /\ IF node' = END
       THEN /\ pc' = "idle"
            /\ agent_state' = s
            /\ ui_messages' = AddNewMessages(ui, s.messages, Len(ui) + 1)
            /\ hops' = 0
       ELSE /\ pc' = "run"
            /\ agent_state' = agent_state
            /\ ui_messages' = ui
            /\ hops' = hops + 1

\* the prompts a turn may bring. The code itself reads the reply at greeting and
\* information_confirmation only; at the later stages an oracle alone reads
\* it, and its answers are enumerated apart, so one text stands for the reply
Prompts(s) ==
    IF StageOf(s) \in {"greeting", "information_confirmation"} THEN UserTexts
    ELSE { <<"2">> }

\* app.py: the user submits a prompt; the session's log, with the prompt, and
\* the last result are the input of app.invoke, and the entry point routes
UserTurn ==
    /\ pc = "idle"
    /\ turns < MaxTurns
    /\ \E prompt \in Prompts(agent_state) :
        LET session == Append(ui_messages, UserMsg(prompt))
        IN  /\ state' = [agent_state EXCEPT !.messages = session]
            /\ Route(state', session)
    /\ turns' = turns + 1
    /\ UNCHANGED <<appointments, outbox, errors, sessions>>

\* a node has returned: it goes on to have its writes applied
Returned(s) ==
    /\ state' = s
    /\ pc' = "apply"
    /\ UNCHANGED <<ui_messages, agent_state, node, turns, errors, sessions, hops>>

\* app.invoke raised, and the conversation is closed on it
Raised_closes_conversation(e) ==
    /\ errors < MaxErrors
    /\ errors' = errors + 1
    /\ ui_messages' = Append(ui_messages,
            AssistantMsg("error", <<"Sorry, I encountered an error: ", e>>))
    /\ state' = agent_state
    /\ node' = END
    /\ pc' = "idle"
    /\ agent_state' = [state EXCEPT !.conversation_stage = Some("completed")]
    /\ hops' = 0
    /\ UNCHANGED <<appointments, outbox, turns, sessions>>

\* app.py: app.invoke raised; the result is dropped, the user is told
Raised(e) ==
    /\ errors < MaxErrors
    /\ errors' = errors + 1
    /\ ui_messages' = Append(ui_messages,
            AssistantMsg("error", <<"Sorry, I encountered an error: ", e>>))
    /\ state' = agent_state
    /\ node' = END
    /\ pc' = "idle"
    /\ hops' = 0
    /\ UNCHANGED <<agent_state, appointments, outbox, turns, sessions>>

Running(n) == pc = "run" /\ node = n

Greeting ==
    /\ Running("greeting")
    /\ \E raw_info \in Extractions : Returned(greeting_node(state, raw_info))
    /\ UNCHANGED <<appointments, outbox>>

GreetingOracleFails ==
    /\ Running("greeting")
    /\ ~IsFirstMessage(state)
    /\ Raised("greeting_agent_chain")

InformationConfirmation ==
    /\ Running("information_confirmation")
    /\ Returned(information_confirmation_node(state))
    /\ UNCHANGED <<appointments, outbox>>

PatientLookup ==
    /\ Running("patient_lookup")
    /\ Returned(patient_lookup_node(state))
    /\ UNCHANGED <<appointments, outbox>>

FindSlots ==
    /\ Running("find_slots")
    /\ \E clock \in Clock : Returned(find_slots_node(state, clock, appointments))
    /\ UNCHANGED <<appointments, outbox>>

SelectionParser ==
    /\ Running("selection_parser")
    /\ \E result \in Selections : Returned(selection_parser_node(state, result))
    /\ UNCHANGED <<appointments, outbox>>

SelectionOracleFails ==
    /\ Running("selection_parser")
    /\ Raised("selection_parser_chain")

Confirmation ==
    /\ Running("confirmation")
    /\ \E clock \in Clock, written \in BOOLEAN :
        LET booked == book_appointment(Val(state.patient_id), Val(state.chosen_slot),
                                       Val(state.is_new_patient), clock, written)
        IN  /\ Returned(confirmation_node(state, clock, written))
            /\ appointments' = IF booked # None THEN Append(appointments, Val(booked))
                               ELSE appointments
    /\ UNCHANGED outbox

EmailCollection ==
    /\ Running("email_collection")
    /\ \E raw_info \in EmailExtractions, delivered \in BOOLEAN :
        LET insurance_info == normalize_and_validate_insurance_info(raw_info)
        IN  /\ Returned(email_collection_node(state, raw_info, delivered))
            /\ outbox' = IF Truthy(insurance_info.patient_email)
                          THEN Append(outbox,
                                    send_form_email(Val(insurance_info.patient_email),
                                        Val(state.patient_info).full_name, delivered))
                          ELSE outbox
    /\ UNCHANGED appointments

EmailOracleFails ==
    /\ Running("email_collection")
    /\ Raised("insurance_parser_chain")

\* the node's return value is written to the channels: `messages` through its
\* reducer operator.add, on the list the node appended to; then the edge routes
ApplyWrites ==
    /\ pc = "apply"
    /\ state' = [state EXCEPT !.messages = operator_add(state.messages, state.messages)]
    /\ Route(state', ui_messages)
    /\ UNCHANGED <<appointments, outbox, turns, errors, sessions>>

Next ==
    \/ UserTurn
    \/ Greeting
    \/ GreetingOracleFails
    \/ InformationConfirmation
    \/ PatientLookup
    \/ FindSlots
    \/ SelectionParser
    \/ SelectionOracleFails
    \/ Confirmation
    \/ EmailCollection
    \/ EmailOracleFails
    \/ ApplyWrites

Spec == Init /\ [][Next]_vars

\* ------------------------------------------------------------ several sessions
\* Streamlit serves every browser session from the one process: each session
\* has its own st.session_state, all share calendar_tool, export_tool and
\* appointments.csv. A session is taken up where its patient's details are
\* confirmed, and followed node by node through find_slots, selection_parser
\* and confirmation.

\* datetime.now() values of the sessions, the end of a year among them
SessionClock == { Dt(2025, 251, 480), Dt(2025, 362, 480) }

\* the details the sessions' patients have confirmed
SessionPatients ==
    { PatientInfo(Some("Al Fox"), Some("1990-01-01"), Some("Smith"), Some("Downtown")),
      PatientInfo(Some("Bo Yu"), Some("1985-03-15"), Some("Smith"), Some("Downtown")) }

\* what a session keeps of the channels: all but the messages, which
\* find_slots, selection_parser and confirmation write and never read
Written(s) == [s EXCEPT !.messages = <<>>]

\* a session once patient_lookup has run on its patient's details; listed_at
\* is the length of the booking log when the session last listed slots, and
\* committed_at the place of the record it booked (0: none)
SessionOf(patient_info) ==
    [state |-> Written(patient_lookup_node(
                    [EmptyState EXCEPT !.messages = <<UserMsg(<<"Y", "e", "s">>)>>,
                                       !.patient_info = Some(patient_info),
                                       !.conversation_stage = Some("patient_lookup")])),
     listed_at |-> 0,
     committed_at |-> 0]

InitSessions ==
    /\ ui_messages = <<>>
    /\ agent_state = EmptyState
    /\ state = EmptyState
    /\ node = END
    /\ pc = "idle"
    /\ appointments = <<>>
    /\ outbox = <<>>
    /\ turns = 0
    /\ errors = 0
    /\ sessions \in [1..NumSessions -> { SessionOf(pi) : pi \in SessionPatients }]
    /\ hops = 0

\* session c has run a node that returned s
SessionReturned(c, s, listed, committed) ==
    /\ sessions' = [sessions EXCEPT ![c] = [state |-> Written(s),
                                            listed_at |-> listed,
                                            committed_at |-> committed]]
    /\ UNCHANGED <<ui_messages, agent_state, state, node, pc, outbox, turns, errors, hops>>

SessionFindSlots ==
    \E c \in 1..NumSessions, clock \in SessionClock :
        /\ StageOf(sessions[c].state) = "find_slots"
        /\ SessionReturned(c, find_slots_node(sessions[c].state, clock, appointments),
                           Len(appointments), sessions[c].committed_at)
        /\ UNCHANGED appointments

SessionSelectionParser ==
    \E c \in 1..NumSessions, result \in Selections :
        /\ StageOf(sessions[c].state) = "selection_parser"
        /\ SessionReturned(c, selection_parser_node(sessions[c].state, result),
                           sessions[c].listed_at, sessions[c].committed_at)
        /\ UNCHANGED appointments

\* (the write to appointments.csv is taken to succeed here; its failure is
\* followed in the single conversation)
SessionConfirmation ==
    \E c \in 1..NumSessions, clock \in SessionClock :
        LET s == sessions[c].state
            written == TRUE
            booked == book_appointment(Val(s.patient_id), Val(s.chosen_slot),
                                       Val(s.is_new_patient), clock, written)
        IN  /\ StageOf(s) = "confirmation"
            /\ appointments' = IF booked # None THEN Append(appointments, Val(booked))
                               ELSE appointments
            /\ SessionReturned(c, confirmation_node(s, clock, written),
                               sessions[c].listed_at,
                               IF booked # None THEN Len(appointments) + 1
                               ELSE sessions[c].committed_at)

NextSessions ==
    \/ SessionFindSlots
    \/ SessionSelectionParser
    \/ SessionConfirmation

SpecSessions == InitSessions /\ [][NextSessions]_vars

\* ------------------------------------------------------------ properties
\* steps of the turn
RouterStep == pc \in {"idle", "apply"}          \* the next step routes
NodeReturns(n) == Running(n) /\ pc' = "apply"   \* node n runs and returns

LastRole(s) == IF s.messages = <<>> THEN "none" ELSE s.messages[Len(s.messages)].role

\* the node appended exactly the message m' = last of state'.messages
AppendedOne == 
    /\ Len(state'.messages) = Len(state.messages) + 1
    /\ SubSeq(state'.messages, 1, Len(state.messages)) = state.messages
    /\ LastRole(state') = "assistant"

AppendedNone == state'.messages = state.messages

\* C1: the router returns find_slots whenever the stage is find_slots, whoever
\* wrote the last message; at any other stage it returns END when the last
\* message is the assistant's; otherwise it dispatches to the handler the stage
\* names, a missing stage counting as greeting and completed mapping to END.
C1_RouterDecision ==
    [][RouterStep =>
        node' = IF state'.conversation_stage = Some("find_slots") THEN "find_slots"
                ELSE IF LastRole(state') = "assistant" THEN END
                ELSE IF state'.conversation_stage = None THEN "greeting"
                ELSE IF state'.conversation_stage = Some("completed") THEN END
                ELSE Val(state'.conversation_stage)]_vars

\* find_slots was routed to although the assistant wrote the last message
C1_Witness ==
    /\ Running("find_slots")
    /\ LastRole(state) = "assistant"

StageOrder ==
    <<"greeting", "information_confirmation", "patient_lookup", "find_slots",
      "selection_parser", "confirmation", "email_collection", "completed">>

StageIndex(stage) == CHOOSE i \in 1..Len(StageOrder) : StageOrder[i] = stage

BackwardSteps ==
    { <<"information_confirmation", "greeting">>,
      <<"selection_parser", "find_slots">>,
      <<"confirmation", "find_slots">> }

\* C2: every change of conversation_stage a handler makes is a forward step
\* in the order of the stages, a self-loop, or one of the three backward steps
\* information_confirmation -> greeting, selection_parser -> find_slots,
\* confirmation -> find_slots.
C2_StageSteps ==
    [][pc = "run" /\ pc' = "apply" =>
        \/ StageIndex(StageOf(state)) <= StageIndex(StageOf(state'))
        \/ <<StageOf(state), StageOf(state')>> \in BackwardSteps]_vars

\* a failed booking has sent the conversation back to find_slots
C2_Witness ==
    /\ pc = "apply"
    /\ node = "confirmation"
    /\ StageOf(state) = "find_slots"

\* the fields of the conversation state other than the message log
Kept(s) == [s EXCEPT !.messages = <<>>]

\* C3: completed is terminal: a user turn taken at stage completed runs no
\* handler, leaves every field of the conversation state and the booking log
\* as they were, and adds the user's message, and nothing else, to the log.
C3_CompletedTerminal ==
    [][pc = "idle" /\ StageOf(agent_state) = "completed" =>
        /\ pc' = "idle"
        /\ node' = END
        /\ Kept(agent_state') = Kept(agent_state)
        /\ appointments' = appointments
        /\ Len(ui_messages') = Len(ui_messages) + 1
        /\ SubSeq(ui_messages', 1, Len(ui_messages)) = ui_messages
        /\ ui_messages'[Len(ui_messages')].role = "user"
        /\ agent_state'.messages = ui_messages']_vars

\* a user turn was taken after the conversation had completed
C3_Witness ==
    /\ pc = "idle"
    /\ StageOf(agent_state) = "completed"
    /\ ui_messages # <<>>
    /\ ui_messages[Len(ui_messages)].role = "user"

\* C4 as stated: at every stage other than find_slots the turn stops exactly
\* when the last message is the assistant's.
C4_Original ==
    [][RouterStep /\ StageOf(state') # "find_slots" =>
        (node' = END <=> LastRole(state') = "assistant")]_vars

\* C4 as amended: at every stage other than find_slots and completed the turn
\* stops exactly when the last message is the assistant's; at completed it
\* stops also when the last message is the user's.
C4_Suspension ==
    [][RouterStep =>
        /\ StageOf(state') \notin {"find_slots", "completed"} =>
            (node' = END <=> LastRole(state') = "assistant")
        /\ StageOf(state') = "completed" => node' = END]_vars

\* the turn has stopped on the assistant's message, at a stage that waits
C4_Witness ==
    /\ pc = "idle"
    /\ StageOf(agent_state) = "selection_parser"
    /\ LastRole(agent_state) = "assistant"

\* C5: when greeting merges an extraction into an existing patient_info, each
\* of the four fields becomes the new value if that is non-empty and stays the
\* old value otherwise: whatever the oracle answers.
C5_MergePolicy ==
    Running("greeting") /\ state.patient_info # None =>
        \A raw_info \in Extractions :
            LET new == normalize_and_validate_patient_info(raw_info)
                old == Val(state.patient_info)
                merged == Val(greeting_node(state, raw_info).patient_info)
            IN  \A f \in Fields :
                    merged[f] = IF new[f] # None /\ Val(new[f]) # "" THEN new[f]
                                ELSE old[f]

\* greeting has merged an extraction that changed a known field
C5_Witness ==
    /\ pc = "apply"
    /\ node = "greeting"
    /\ agent_state.patient_info # None
    /\ Val(agent_state.patient_info).full_name = Some("Al Fox")
    /\ Val(state.patient_info).full_name = Some("Al Fax")

FieldSet(s, f) == s.patient_info # None /\ Val(s.patient_info)[f] # None

AllFourNonEmpty(s) ==
    /\ s.patient_info # None
    /\ \A f \in Fields :
        Val(s.patient_info)[f] # None /\ Val(Val(s.patient_info)[f]) # ""

\* C6: a patient_info field that is non-null stays non-null in every later
\* state, whatever the oracle extracts; a complete patient_info stays complete.
C6_MonotonicCompleteness ==
    [][/\ \A f \in Fields :
            /\ FieldSet(state, f) => FieldSet(state', f)
            /\ FieldSet(agent_state, f) => FieldSet(agent_state', f)
       /\ AllFourNonEmpty(state) => AllFourNonEmpty(state')
       /\ AllFourNonEmpty(agent_state) => AllFourNonEmpty(agent_state')]_vars

\* greeting has run on a patient_info with known fields and an extraction
\* that added nothing, and the known fields are still there
C6_Witness ==
    /\ pc = "apply"
    /\ node = "greeting"
    /\ FieldSet(agent_state, "full_name")
    /\ ~AllFourNonEmpty(agent_state)
    /\ state.patient_info = agent_state.patient_info

\* C7: a greeting execution other than the first-turn welcome moves the stage
\* to information_confirmation, appending nothing, exactly when all four
\* fields are non-empty after the merge; otherwise the stage stays greeting
\* and exactly one "I still need ..." message is appended.
C7_GreetingExit ==
    [][NodeReturns("greeting") /\ ~IsFirstMessage(state) =>
        IF AllFourNonEmpty(state')
        THEN /\ state'.conversation_stage = Some("information_confirmation")
             /\ AppendedNone
        ELSE /\ state'.conversation_stage = Some("greeting")
             /\ AppendedOne
             /\ state'.messages[Len(state'.messages)].kind = "missing_info"
             /\ state'.messages[Len(state'.messages)].content[1] = "I still need "]_vars

\* greeting has completed the patient_info and moved on without a message
C7_Witness ==
    /\ pc = "apply"
    /\ node = "greeting"
    /\ AllFourNonEmpty(state)
    /\ state.conversation_stage = Some("information_confirmation")
    /\ LastRole(state) = "user"

\* the last user reply, lower-cased, contains one of the words
ReplyHasWord(s, words) ==
    /\ LastUserContent(s.messages) # None
    /\ \E word \in words : Contains(lower(Val(LastUserContent(s.messages))), word)

\* C8: in information_confirmation a reply containing an affirmative keyword,
\* in any case of letters, moves the stage to patient_lookup and appends no
\* assistant message.
C8_Affirmative ==
    [][NodeReturns("information_confirmation") /\ ReplyHasWord(state, AffirmativeWords) =>
        /\ state'.conversation_stage = Some("patient_lookup")
        /\ AppendedNone]_vars

\* information_confirmation has taken a reply as the confirmation
C8_Witness ==
    /\ pc = "apply"
    /\ node = "information_confirmation"
    /\ ReplyHasWord(state, {<<"y","e","s">>})
    /\ state.conversation_stage = Some("patient_lookup")

\* C9 as stated: in information_confirmation a reply containing a negative
\* keyword returns the stage to greeting and appends an assistant message
\* inviting the correction.
C9_Negative ==
    [][NodeReturns("information_confirmation") /\ ReplyHasWord(state, NegativeWords) =>
        /\ state'.conversation_stage = Some("greeting")
        /\ AppendedOne
        /\ state'.messages[Len(state'.messages)].kind = "update_prompt"]_vars

\* the four lines of the summary of a complete patient_info
SummaryOf(pi) ==
    << <<"**Name:** ", Val(pi.full_name)>>,
       <<"**Date of Birth:** ", Val(pi.date_of_birth)>>,
       <<"**Preferred Doctor:** ", Val(pi.preferred_doctor)>>,
       <<"**Preferred Location:** ", Val(pi.preferred_location)>> >>

\* C10: in information_confirmation a reply containing neither an affirmative
\* nor a negative keyword leaves the stage at information_confirmation,
\* appends exactly one assistant message, which shows the summary of the
\* current patient_info and asks again, and changes no other field.
C10_Reprompt ==
    [][/\ NodeReturns("information_confirmation")
       /\ ~ReplyHasWord(state, AffirmativeWords)
       /\ ~ReplyHasWord(state, NegativeWords)
       =>
        /\ state'.conversation_stage = Some("information_confirmation")
        /\ AppendedOne
        /\ state'.messages[Len(state'.messages)].kind = "confirm_info"
        /\ state'.messages[Len(state'.messages)].content[2]
                = SummaryOf(Val(state.patient_info))
        /\ Kept([state' EXCEPT !.conversation_stage = state.conversation_stage])
                = Kept(state)
        /\ appointments' = appointments]_vars

\* information_confirmation has shown the summary again
C10_Witness ==
    /\ pc = "apply"
    /\ node = "information_confirmation"
    /\ state.conversation_stage = Some("information_confirmation")
    /\ state.messages[Len(state.messages)].kind = "confirm_info"

\* the rows of the store a lookup of (name, dob) may return: a close name
\* and the same date of birth
RecordsFor(full_name, dob) ==
    { i \in 1..Len(Patients) :
        /\ FuzzScore(NameParts(full_name), FullName(Patients[i])) >= ScoreCutoff
        /\ Patients[i].date_of_birth = dob }

\* C11: patient_lookup always leaves the stage at find_slots with exactly one
\* assistant message appended; when the lookup finds a record, patient_id is
\* the id of a record of that name and date of birth; when it reports
\* not-found, patient_id is NEW_PATIENT and is_new_patient is true.
C11_LookupExit ==
    [][NodeReturns("patient_lookup") =>
        LET pi == Val(state.patient_info)
            found == lookup_patient(Val(pi.full_name), Val(pi.date_of_birth))
        IN  /\ state'.conversation_stage = Some("find_slots")
            /\ AppendedOne
            /\ IF found # None
               THEN /\ \E i \in RecordsFor(Val(pi.full_name), Val(pi.date_of_birth)) :
                        state'.patient_id = Some(Patients[i].patient_id)
                    /\ state'.is_new_patient # None
               ELSE /\ state'.patient_id = Some("NEW_PATIENT")
                    /\ state'.is_new_patient = Some(TRUE)]_vars

\* the lookup has missed and the conversation has gone on as a new patient
C11_Witness ==
    /\ pc = "apply"
    /\ node = "patient_lookup"
    /\ state.patient_id = Some("NEW_PATIENT")
    /\ state.conversation_stage = Some("find_slots")

\* the lookup has found the record of a returning patient
C11_FoundReached ==
    /\ pc = "apply"
    /\ node = "patient_lookup"
    /\ state.patient_id = Some("P001")

\* C12: patient_id and is_new_patient are assigned once: patient_lookup runs
\* only while neither is set, so at most once in a conversation, and once they
\* are set no step of the workflow or of the session changes either value.
C12_AssignedOnce ==
    [][/\ Running("patient_lookup") =>
            state.patient_id = None /\ state.is_new_patient = None
       /\ state.patient_id # None =>
            /\ state'.patient_id = state.patient_id
            /\ state'.is_new_patient = state.is_new_patient
       /\ agent_state.patient_id # None =>
            /\ agent_state'.patient_id = agent_state.patient_id
            /\ agent_state'.is_new_patient = agent_state.is_new_patient
       /\ state.patient_id = None <=> state.is_new_patient = None]_vars

\* the slots are listed again, after an unparseable selection, for a patient
\* the lookup has identified
C12_Witness ==
    /\ pc = "apply"
    /\ node = "find_slots"
    /\ state.patient_id # None
    /\ \E i \in 1..Len(state.messages) : state.messages[i].kind = "ambiguous"

\* the numbered lines of a listing in an assistant message
ListedLines(m) == m.content[7]

Min(a, b) == IF a < b THEN a ELSE b

\* C13: each execution of find_slots overwrites available_slots with the list
\* computed from the schedule and the booking log as it is now; if the list is
\* non-empty the stage becomes selection_parser and one assistant message is
\* appended that lists its first five slots at most, numbered from 1; if it
\* is empty the stage becomes completed and one apology message is appended.
C13_FindSlotsExit ==
    [][NodeReturns("find_slots") =>
        \E clock \in Clock :
            LET is_new == state.is_new_patient = None \/ Val(state.is_new_patient)
                fresh == find_available_slots(is_new, clock,
                            AddDays(clock, LookaheadDays), booked_slots(appointments))
                last == state'.messages[Len(state'.messages)]
            IN  /\ state'.available_slots = Some(fresh)
                /\ AppendedOne
                /\ Kept([state' EXCEPT !.available_slots = state.available_slots,
                                       !.conversation_stage = state.conversation_stage])
                        = Kept(state)
                /\ IF fresh # <<>>
                   THEN /\ state'.conversation_stage = Some("selection_parser")
                        /\ last.kind = "slots"
                        /\ Len(ListedLines(last)) = Min(Len(fresh), 5)
                        /\ \A i \in 1..Len(ListedLines(last)) :
                                ListedLines(last)[i] = <<i, ". ", fresh[i]>>
                   ELSE /\ state'.conversation_stage = Some("completed")
                        /\ last.kind = "no_slots"]_vars

\* six slots were open and five of them listed
C13_Witness ==
    /\ pc = "apply"
    /\ node = "find_slots"
    /\ Len(Val(state.available_slots)) = 6
    /\ Len(ListedLines(state.messages[Len(state.messages)])) = 5

\* no slot was open: the conversation has completed with the apology
C13_NoSlots ==
    /\ pc = "apply"
    /\ node = "find_slots"
    /\ state.available_slots = Some(<<>>)
    /\ state.conversation_stage = Some("completed")

\* the slot number of an oracle result: the value under the first of the three
\* keys that holds a number other than 0
NumberKeys == <<"slotNumber", "slot_number", "number">>

NumberOf(result) ==
    LET given == { i \in 1..3 : Get(result, NumberKeys[i]) \notin {None, Some(0)} }
    IN  IF given = {} THEN None
        ELSE Get(result, NumberKeys[CHOOSE i \in given : \A j \in given : i <= j])

\* the slot text of an oracle result, likewise
TextKeys == <<"selectedSlot", "selected_slot", "slot">>

TextOf(result) ==
    LET given == { i \in 1..3 : Get(result, TextKeys[i]) \notin {None, Some(<<>>)} }
    IN  IF given = {} THEN None
        ELSE Get(result, TextKeys[CHOOSE i \in given : \A j \in given : i <= j])

InRange(k, slots) == k # None /\ 1 <= Val(k) /\ Val(k) <= Len(slots)

\* C14: whenever selection_parser runs and the oracle's result holds a slot
\* number k with 1 <= k <= len(available_slots), chosen_slot becomes exactly
\* available_slots[k-1] (the k-th slot) and the stage confirmation, whatever
\* slot text the result holds beside it.
C14_IndexSelection ==
    Running("selection_parser") =>
        \A result \in Selections :
            LET slots == Val(state.available_slots)
                k == NumberOf(result)
                after == selection_parser_node(state, result)
            IN  InRange(k, slots) =>
                    /\ after.chosen_slot = Some(slots[Val(k)])
                    /\ after.conversation_stage = Some("confirmation")
                    /\ after.messages = state.messages

\* slot number 2 was taken although the text beside it names another slot
C14_Witness ==
    /\ pc = "apply"
    /\ node = "selection_parser"
    /\ Len(Val(state.available_slots)) >= 4
    /\ state.chosen_slot = Some(Val(state.available_slots)[2])
    /\ FirstTextMatch(<<"Lee, MD">>, Val(state.available_slots))
            = Some(Val(state.available_slots)[4])

\* the slots of the last listing: the first five of available_slots
ShownOf(s) ==
    SubSeq(Val(s.available_slots), 1, Min(Len(Val(s.available_slots)), 5))

\* C15 as stated: whenever selection_parser has set chosen_slot, the chosen
\* slot is one of the slots shown in the last listing, the first five entries
\* of available_slots.
C15_ChosenWasShown ==
    pc = "apply" /\ node = "selection_parser"
        /\ state.conversation_stage = Some("confirmation") =>
            \E i \in 1..Len(ShownOf(state)) : state.chosen_slot = Some(ShownOf(state)[i])

\* no slot's text contains the text, nor the text a slot's
MatchesNone(text, slots) ==
    \A i \in 1..Len(slots) : ~Contains(slots[i], text) /\ ~Contains(text, slots[i])

\* C16: whenever selection_parser runs and the oracle's result holds neither a
\* slot number in range nor a slot text matching an available slot (no text,
\* the text AMBIGUOUS, or a text matching none), the handler leaves chosen_slot
\* and every other field as they were, appends the clarification re-prompt
\* and leaves the stage at find_slots.
C16_AmbiguousSelection ==
    Running("selection_parser") =>
        \A result \in Selections :
            LET slots == Val(state.available_slots)
                text == TextOf(result)
                after == selection_parser_node(state, result)
            IN  /\ ~InRange(NumberOf(result), slots)
                /\ \/ text = None
                   \/ Val(text) = <<"AMBIGUOUS">>
                   \/ MatchesNone(Val(text), slots)
                =>
                /\ after.chosen_slot = state.chosen_slot
                /\ after.conversation_stage = Some("find_slots")
                /\ Len(after.messages) = Len(state.messages) + 1
                /\ SubSeq(after.messages, 1, Len(state.messages)) = state.messages
                /\ after.messages[Len(after.messages)].role = "assistant"
                /\ after.messages[Len(after.messages)].kind = "ambiguous"
                /\ Kept([after EXCEPT !.conversation_stage = state.conversation_stage])
                        = Kept(state)

\* a slot number out of range has been answered with the clarification, and
\* the router goes on to list the slots again
C16_Witness ==
    /\ Running("find_slots")
    /\ state.available_slots # None
    /\ Len(Val(state.available_slots)) < 6
    /\ state.chosen_slot = None
    /\ state.messages[Len(state.messages)].kind = "ambiguous"

\* C17: confirmation, when book_appointment returns (a record is appended to
\* the booking log), sets appointment_id to that record's id, appends one
\* assistant message, which asks for an email address, and moves to
\* email_collection; when the booking raises (nothing is appended),
\* appointment_id stays unset, one apology message is appended and the stage
\* returns to find_slots.
C17_ConfirmationExit ==
    [][NodeReturns("confirmation") =>
        LET last == state'.messages[Len(state'.messages)]
        IN  /\ AppendedOne
            /\ IF appointments' # appointments
               THEN /\ Len(appointments') = Len(appointments) + 1
                    /\ state'.appointment_id
                            = Some(appointments'[Len(appointments')].appointment_id)
                    /\ state'.conversation_stage = Some("email_collection")
                    /\ last.kind = "booked"
                    /\ last.content[Len(last.content)]
                            = "What is a good email address to send the intake form to?"
               ELSE /\ state'.appointment_id = None
                    /\ state'.conversation_stage = Some("find_slots")
                    /\ last.kind = "booking_error"
            /\ Kept([state' EXCEPT !.appointment_id = state.appointment_id,
                                   !.conversation_stage = state.conversation_stage])
                    = Kept(state)]_vars

\* a booking of a well-formed slot has failed on the write, and the
\* conversation is back at find_slots without an appointment_id
C17_Witness ==
    /\ pc = "apply"
    /\ node = "confirmation"
    /\ state.conversation_stage = Some("find_slots")
    /\ state.appointment_id = None
    /\ Val(state.chosen_slot)[1] = "Dr. "

\* a booking has succeeded
C17_Booked ==
    /\ pc = "apply"
    /\ node = "confirmation"
    /\ state.appointment_id # None
    /\ state.conversation_stage = Some("email_collection")

\* the email of an oracle result: the value under the first of the three keys
\* that holds a non-empty text
EmailKeys == <<"patientEmail", "patient_email", "email">>

EmailOf(raw_info) ==
    LET given == { i \in 1..3 : Get(raw_info, EmailKeys[i]) \notin {None, Some("")} }
    IN  IF given = {} THEN None
        ELSE Get(raw_info, EmailKeys[CHOOSE i \in given : \A j \in given : i <= j])

\* C18: email_collection, for every answer of the extractor and either result
\* of the send: with a non-empty email, sets patient_email, appends one
\* message and moves to completed, whether or not the send reports success;
\* otherwise appends the re-prompt and stays at email_collection. The send is
\* dispatched exactly once, to that email, in the first case and not at all
\* in the second.
C18_EmailExit ==
    [][NodeReturns("email_collection") =>
        /\ \A raw_info \in EmailExtractions, delivered \in BOOLEAN :
            LET after == email_collection_node(state, raw_info, delivered)
                last == after.messages[Len(after.messages)]
            IN  /\ Len(after.messages) = Len(state.messages) + 1
                /\ last.role = "assistant"
                /\ IF EmailOf(raw_info) # None
                   THEN /\ after.patient_email = EmailOf(raw_info)
                        /\ after.conversation_stage = Some("completed")
                        /\ last.kind = "all_set"
                   ELSE /\ after.patient_email = state.patient_email
                        /\ after.conversation_stage = Some("email_collection")
                        /\ last.kind = "email_reprompt"
        /\ IF state'.conversation_stage = Some("completed")
           THEN /\ Len(outbox') = Len(outbox) + 1
                /\ SubSeq(outbox', 1, Len(outbox)) = outbox
                /\ Some(outbox'[Len(outbox')].recipient_email) = state'.patient_email
           ELSE outbox' = outbox]_vars

\* the conversation has completed although the send reported failure
C18_Witness ==
    /\ pc = "apply"
    /\ node = "email_collection"
    /\ state.conversation_stage = Some("completed")
    /\ Len(outbox) = 1
    /\ ~outbox[1].returned

\* the extractor found no email: the handler has asked again, and sent nothing
C18_Reprompted ==
    /\ pc = "apply"
    /\ node = "email_collection"
    /\ state.conversation_stage = Some("email_collection")
    /\ outbox = <<>>

\* C19 as stated: whenever a turn has ended, if chosen_slot is set then the
\* stage is at or beyond confirmation: confirmation, email_collection or
\* completed.
C19_ChosenSlotStage ==
    pc = "idle" /\ agent_state.chosen_slot # None =>
        StageOf(agent_state) \in {"confirmation", "email_collection", "completed"}

\* the slots the schedule yields: row i, offset k, for the rows starting in
\* [start_date, end_date), with the slot inside the block and its start not
\* the date and time of a record of the log
OpenStarts(duration, start_date, end_date, log) ==
    { p \in (1..Len(Schedule)) \X (0..24) :
        LET row == Schedule[p[1]]
            s == AddMinutes(row.start_datetime, p[2] * duration)
        IN  /\ Ord(row.start_datetime) >= Ord(start_date)
            /\ Ord(row.start_datetime) < Ord(end_date)
            /\ Ord(s) + duration <= Ord(row.end_datetime)
            /\ \A n \in 1..Len(log) :
                    \/ log[n].appointment_date # <<s.year, s.day>>
                    \/ log[n].appointment_time # s.minute }

\* p comes before q, or is q: by row, then by offset
Before(p, q) == p[1] < q[1] \/ (p[1] = q[1] /\ p[2] <= q[2])

ExpectedSlots(duration, start_date, end_date, log) ==
    LET open == OpenStarts(duration, start_date, end_date, log)
    IN  [ n \in 1..Cardinality(open) |->
            LET p == CHOOSE q \in open :
                        Cardinality({ r \in open : Before(r, q) }) = n
            IN  FormatSlot(Schedule[p[1]].doctor_name,
                           AddMinutes(Schedule[p[1]].start_datetime, p[2] * duration)) ]

\* C20: find_available_slots returns, in the order of the schedule's rows and
\* then by ascending offset, exactly the starts block_start + k*duration that
\* fit in a block starting in [start_date, end_date), less every start equal to
\* the date and time of a record of the booking log, whichever doctor the
\* record names; the duration is 60 minutes for a new patient and 30 for a
\* returning one. Stated wherever find_slots is about to call it, for either
\* kind of patient and every clock.
C20_SlotGeneration ==
    Running("find_slots") =>
        \A is_new_patient \in BOOLEAN, clock \in Clock :
            find_available_slots(is_new_patient, clock, AddDays(clock, 14),
                                 booked_slots(appointments))
                = ExpectedSlots(IF is_new_patient THEN 60 ELSE 30,
                                clock, AddDays(clock, 14), appointments)

\* block 09:00-12:00, 60 minutes, 10:00 booked: 09:00 and 11:00 are offered,
\* and 10:00 with neither doctor
C20_Witness ==
    /\ pc = "apply"
    /\ node = "find_slots"
    /\ state.is_new_patient = Some(TRUE)
    /\ appointments # <<>>
    /\ state.available_slots =
        Some(<< <<"Dr. ", "Smith", " on ", "Monday, September 08", " at ", "09:00 AM">>,
                <<"Dr. ", "Smith", " on ", "Monday, September 08", " at ", "11:00 AM">> >>)

\* ------------------------------------------------------------ sessions: properties
\* session c has booked: the record it committed
Committed(c) == sessions[c].committed_at > 0
RecordOf(c) == appointments[sessions[c].committed_at]

\* the slots a call of find_available_slots lists with the booking log as it
\* stands, made at `clock` for a patient of either kind
ListedNow(clock, is_new_patient) ==
    find_available_slots(is_new_patient, clock, AddDays(clock, LookaheadDays),
                         booked_slots(appointments))

\* C21: a booked slot is never offered again: once book_appointment has
\* committed a descriptor that find_available_slots returned, no later call of
\* find_available_slots, which reloads the booking log, lists that descriptor.
C21_BookedNeverOffered ==
    \A c \in 1..NumSessions :
        Committed(c) =>
            \A clock \in SessionClock, is_new_patient \in BOOLEAN :
                Ord(clock) >= RecordOf(c).appointment_id[2] =>
                    \A i \in 1..Len(ListedNow(clock, is_new_patient)) :
                        ListedNow(clock, is_new_patient)[i]
                            # Val(sessions[c].state.chosen_slot)

\* the session that committed the record at place j of the booking log
CommitterOf(j) == CHOOSE c \in 1..NumSessions : sessions[c].committed_at = j

SameStart(i, j) ==
    /\ appointments[i].appointment_date = appointments[j].appointment_date
    /\ appointments[i].appointment_time = appointments[j].appointment_time

\* C22: whenever the booking log holds two records of the same date and time,
\* the session that committed the later one had made its most recent listing
\* of slots before the earlier record was committed.
C22_StaleListing ==
    \A i, j \in 1..Len(appointments) :
        i < j /\ SameStart(i, j) => sessions[CommitterOf(j)].listed_at < i

\* the same, of the records whose slot lies in the year it was booked in
C22_StaleListingWithinYear ==
    \A i, j \in 1..Len(appointments) :
        i < j /\ SameStart(i, j) /\ appointments[j].appointment_date[2] # 3
            => sessions[CommitterOf(j)].listed_at < i

\* two sessions have booked the same start, the later on a stale listing
C22_RaceReached ==
    \E i, j \in 1..Len(appointments) :
        i < j /\ SameStart(i, j) /\ sessions[CommitterOf(j)].listed_at < i

\* the sessions ran one at a time: each one that booked had listed the slots
\* with every earlier record in the log
OneAtATime ==
    \A c \in 1..NumSessions :
        Committed(c) => sessions[c].listed_at = sessions[c].committed_at - 1

\* a record's appointment interval, in minutes: from its date and time, for
\* 60 minutes if is_new_patient and 30 otherwise
StartOf(r) == Ord(Dt(r.appointment_date[1], r.appointment_date[2], r.appointment_time))
EndOf(r) == StartOf(r) + (IF r.is_new_patient THEN 60 ELSE 30)
Overlap(r, q) == StartOf(r) < EndOf(q) /\ StartOf(q) < EndOf(r)

\* C23: after bookings made one conversation at a time, no two records of the
\* booking log for the same doctor have overlapping appointment intervals.
C23_NoOverlap ==
    OneAtATime =>
        \A i, j \in 1..Len(appointments) :
            i < j /\ appointments[i].doctor_name = appointments[j].doctor_name
                => ~Overlap(appointments[i], appointments[j])

\* the same, of patients of one kind and slots in the year of booking
C23_NoOverlapOneKind ==
    OneAtATime =>
        \A i, j \in 1..Len(appointments) :
            /\ i < j
            /\ appointments[i].doctor_name = appointments[j].doctor_name
            /\ appointments[i].is_new_patient = appointments[j].is_new_patient
            /\ appointments[j].appointment_date[2] # 3
            => ~Overlap(appointments[i], appointments[j])

\* ------------------------------------------------------------ booking log: properties
\* a descriptor _parse_slot_string's pattern can match: it opens with "Dr. "
OpensWithTitle(slot) == slot[1] = "Dr. "

\* C24: the booking log is append-only: a successful book_appointment appends
\* exactly one record, of status Confirmed; a call whose descriptor does not
\* parse appends none and raises; every step leaves the records written
\* before as they were.
C24_AppendOnly ==
    [][/\ Len(appointments') >= Len(appointments)
       /\ SubSeq(appointments', 1, Len(appointments)) = appointments
       /\ appointments' # appointments => NodeReturns("confirmation")
       /\ NodeReturns("confirmation") =>
            LET last == state'.messages[Len(state'.messages)]
            IN  /\ last.kind = "booked" =>
                    /\ Len(appointments') = Len(appointments) + 1
                    /\ appointments'[Len(appointments')].status = "Confirmed"
                    /\ appointments'[Len(appointments')].patient_id = Val(state.patient_id)
                /\ last.kind # "booked" =>
                    /\ appointments' = appointments
                    /\ last.kind = "booking_error"
                /\ ~OpensWithTitle(Val(state.chosen_slot)) => last.kind # "booked"]_vars

\* a booking has succeeded on a log that held a record already
C24_Witness ==
    /\ pc = "apply"
    /\ node = "confirmation"
    /\ state.conversation_stage = Some("email_collection")
    /\ Len(appointments) = 2

\* a booking of a descriptor that does not parse has been refused, the log
\* holding a record
C24_Unparsed ==
    /\ pc = "apply"
    /\ node = "confirmation"
    /\ ~OpensWithTitle(Val(state.chosen_slot))
    /\ state.messages[Len(state.messages)].kind = "booking_error"
    /\ Len(appointments) = 1

\* C25: over any sequence of successful bookings, by any patients at any
\* times, no two records of the booking log share an appointment_id.
C25_UniqueIds ==
    \A i, j \in 1..Len(appointments) :
        i < j => appointments[i].appointment_id # appointments[j].appointment_id

\* the second-resolution timestamp a record's identifier was made from
StampOf(r) == r.appointment_id[2]

\* the last four characters of a patient identifier, counted from its end
Tail4(patient_id) ==
    LET chars == IdChars(patient_id)
    IN  [k \in 1..4 |-> IF Len(chars) >= k THEN <<chars[Len(chars) + 1 - k]>> ELSE <<>>]

\* C26: two bookings made in the same second for patients whose identifiers
\* differ in their last 4 characters produce different appointment identifiers.
C26_SameSecond ==
    \A i, j \in 1..Len(appointments) :
        /\ i < j
        /\ StampOf(appointments[i]) = StampOf(appointments[j])
        /\ Tail4(appointments[i].patient_id) # Tail4(appointments[j].patient_id)
        => appointments[i].appointment_id # appointments[j].appointment_id

\* two sessions have booked in the same second for such patients
C26_Witness ==
    /\ Len(appointments) = 2
    /\ StampOf(appointments[1]) = StampOf(appointments[2])
    /\ Tail4(appointments[1].patient_id) # Tail4(appointments[2].patient_id)
    /\ \A c \in 1..NumSessions : Committed(c)

\* ------------------------------------------------------------ patient lookup: properties
\* similarity of the asked name to the full name of row i of the store
ScoreOf(full_name, i) == FuzzScore(NameParts(full_name), FullName(Patients[i]))

\* C27: whenever some stored record's full name has similarity >= 80 to the
\* given name and its date_of_birth equals the given one exactly,
\* search_patient returns that record.
C27_FuzzyFinds ==
    Running("patient_lookup") =>
        \A full_name \in QueryNames, dob \in QueryDobs :
            \A i \in 1..Len(Patients) :
                ScoreOf(full_name, i) >= 80 /\ Patients[i].date_of_birth = dob
                    => search_patient(full_name, dob) = Some(Patients[i])

\* the same, where no other stored name is closer to the given one
C27_FuzzyFindsClosest ==
    Running("patient_lookup") =>
        \A full_name \in QueryNames, dob \in QueryDobs :
            \A i \in 1..Len(Patients) :
                /\ ScoreOf(full_name, i) >= 80
                /\ Patients[i].date_of_birth = dob
                /\ \A j \in 1..Len(Patients) : ScoreOf(full_name, j) <= ScoreOf(full_name, i)
                => search_patient(full_name, dob) = Some(Patients[i])

\* the highest similarity of any stored name to the asked one
BestScore(full_name) ==
    CHOOSE v \in { ScoreOf(full_name, i) : i \in 1..Len(Patients) } :
        \A i \in 1..Len(Patients) : ScoreOf(full_name, i) <= v

\* the rows bearing the best-matching name
BestRows(full_name) ==
    { i \in 1..Len(Patients) : ScoreOf(full_name, i) = BestScore(full_name) }

\* C28: any record search_patient returns has date_of_birth equal to the
\* queried one and a full name that is the best fuzzy match, of score >= 80;
\* if the best-matching name's record has another date of birth, or no name
\* reaches 80, the result is not-found, even with a perfect name match.
C28_LookupSound ==
    Running("patient_lookup") =>
        \A full_name \in QueryNames, dob \in QueryDobs :
            LET found == search_patient(full_name, dob)
            IN  /\ found # None =>
                    \E i \in BestRows(full_name) :
                        /\ Val(found) = Patients[i]
                        /\ Patients[i].date_of_birth = dob
                        /\ BestScore(full_name) >= 80
                /\ (\A i \in BestRows(full_name) : Patients[i].date_of_birth # dob)
                        => found = None
                /\ BestScore(full_name) < 80 => found = None

\* the lookup has missed on a name that is in the store to the letter, the
\* date of birth being another
C28_Witness ==
    /\ pc = "apply"
    /\ node = "patient_lookup"
    /\ Val(state.patient_info).full_name = Some("Al Fax")
    /\ BestScore("Al Fax") = 100
    /\ search_patient("Al Fax", Val(Val(state.patient_info).date_of_birth)) = None
    /\ state.patient_id = Some("NEW_PATIENT")

\* C29: for a found record, lookup_patient returns is_new_patient = false if
\* and only if the record's visit_history > 0; a found record with
\* visit_history = 0 is classified new and keeps its own patient_id. It holds
\* of every lookup that may be asked, as the sessions open, and of the
\* sessions' own patients throughout.
C29_Classification ==
    /\ appointments = <<>> /\ (\A c \in 1..NumSessions : sessions[c].listed_at = 0
                                    /\ sessions[c].state.available_slots = None) =>
       \A full_name \in QueryNames, dob \in QueryDobs :
        LET record == search_patient(full_name, dob)
            result == lookup_patient(full_name, dob)
        IN  /\ record # None <=> result # None
            /\ record # None =>
                /\ Val(result).patient_id = Val(record).patient_id
                /\ Val(result).is_new_patient = FALSE <=> Val(record).visit_history > 0
                /\ Val(record).visit_history = 0 => Val(result).is_new_patient = TRUE
    /\ \A c \in 1..NumSessions :
        LET s == sessions[c].state
            record == search_patient(Val(Val(s.patient_info).full_name),
                                     Val(Val(s.patient_info).date_of_birth))
        IN  record # None =>
                /\ s.patient_id = Some(Val(record).patient_id)
                /\ s.is_new_patient = Some(Val(record).visit_history = 0)

\* a session's patient is on file without a visit: the lookup has classified
\* the patient new under the patient's own id, and slots have been listed
C29_Witness ==
    \E c \in 1..NumSessions :
        /\ sessions[c].state.patient_id = Some("P002")
        /\ sessions[c].state.is_new_patient = Some(TRUE)
        /\ sessions[c].state.available_slots # None

\* ------------------------------------------------------------ missing-info message: properties
\* the four fields in the order the message names them, and their wording
FieldOrder == <<"full_name", "date_of_birth", "preferred_doctor", "preferred_location">>

Wording(f) ==
    CASE f = "full_name" -> "your full name"
      [] f = "date_of_birth" -> "your date of birth"
      [] f = "preferred_doctor" -> "your preferred doctor"
      [] f = "preferred_location" -> "your preferred location"

\* every PatientInfo whose fields are absent, empty or given
PatientInfos == [Fields -> {None, Some(""), Some("x")}]

\* the places in FieldOrder of the fields pi lacks, and the k-th of them
MissingPlaces(pi) == { k \in 1..4 : pi[FieldOrder[k]] \in {None, Some("")} }
Nth(places, k) ==
    CHOOSE p \in places : Cardinality({ q \in places : q < p }) = k - 1

Request == ". Could you please provide that information?"

\* the message the claim words for the lacking fields
ExpectedMessage(pi) ==
    LET places == MissingPlaces(pi)
        n == Cardinality(places)
        X(k) == Wording(FieldOrder[Nth(places, k)])
    IN  CASE n = 0 -> None
          [] n = 1 -> Some(<<"I still need ", X(1), Request>>)
          [] n = 2 -> Some(<<"I still need ", X(1), " and ", X(2), Request>>)
          [] n = 3 -> Some(<<"I still need ", X(1), ", ", X(2), ", and ", X(3), Request>>)
          [] n = 4 -> Some(<<"I still need ", X(1), ", ", X(2), ", ", X(3),
                             ", and ", X(4), Request>>)

\* C30: for every subset of the four fields that is missing,
\* get_missing_info_message names the missing fields in the order full name,
\* date of birth, preferred doctor, preferred location: none missing gives no
\* message, one "I still need X.", two "I still need X and Y.", three or four
\* a comma list ending ", and Z.", each followed by the request to provide
\* the information.
C30_MissingInfoMessage ==
    Running("greeting") =>
        /\ \A pi \in PatientInfos : get_missing_info_message(pi) = ExpectedMessage(pi)
        /\ get_missing_info_message(
                PatientInfo(Some("x"), Some("x"), None, None))
            = Some(<<"I still need ", "your preferred doctor", " and ",
                     "your preferred location",
                     ". Could you please provide that information?">>)

\* the greeting has asked for the doctor and the location, the two fields the
\* patient has not given
C30_Witness ==
    /\ pc = "apply"
    /\ node = "greeting"
    /\ state.patient_info # None
    /\ MissingPlaces(Val(state.patient_info)) = {3, 4}
    /\ state.messages[Len(state.messages)].content
        = <<"I still need ", "your preferred doctor", " and ",
            "your preferred location", ". Could you please provide that information?">>

\* ------------------------------------------------------------ turns: properties
\* app.invoke has raised in this step
TurnRaises == pc = "run" /\ pc' = "idle" /\ errors' = errors + 1

\* C31: if the extraction oracle or a handler raises during a turn, the
\* conversation state kept for the next turn equals the state before the
\* turn, and one generic error message is shown to the user. (The kept state
\* changes in no step but the one ending a turn without an exception, so at
\* the raise it still is the state before the turn.)
C31_ExceptionKeepsState ==
    [][/\ agent_state' # agent_state => pc' = "idle" /\ errors' = errors
       /\ TurnRaises =>
            /\ \A k \in {"conversation_stage", "patient_info", "patient_id",
                         "available_slots", "chosen_slot", "appointment_id"} :
                    agent_state'[k] = agent_state[k]
            /\ Len(ui_messages') = Len(ui_messages) + 1
            /\ SubSeq(ui_messages', 1, Len(ui_messages)) = ui_messages
            /\ ui_messages'[Len(ui_messages')].role = "assistant"
            /\ ui_messages'[Len(ui_messages')].content[1]
                    = "Sorry, I encountered an error: "]_vars

\* the selection oracle has raised with slots listed: the user is told, and
\* the conversation still waits for the selection
C31_Witness ==
    /\ pc = "idle"
    /\ errors = 1
    /\ ui_messages[Len(ui_messages)].kind = "error"
    /\ agent_state.conversation_stage = Some("selection_parser")
    /\ agent_state.chosen_slot = None

\* C32: merging the same extracted fields into patient_info twice in
\* succession yields the same patient_info as merging them once.
C32_MergeIdempotent ==
    Running("greeting") /\ ~IsFirstMessage(state) =>
        \A raw_info \in Extractions :
            LET once == greeting_node(state, raw_info)
                twice == greeting_node(once, raw_info)
            IN  twice.patient_info = once.patient_info

\* greeting has merged an extraction into a patient_info that held values,
\* and the merge changed it
C32_Witness ==
    /\ pc = "apply"
    /\ node = "greeting"
    /\ agent_state.patient_info # None
    /\ state.patient_info # agent_state.patient_info
    /\ \E raw_info \in Extractions :
        greeting_node(state, raw_info).patient_info = state.patient_info

\* the steps of a running app.invoke: a node runs or raises, or its writes
\* are applied and the edge routes
Workflow ==
    \/ Greeting
    \/ GreetingOracleFails
    \/ InformationConfirmation
    \/ PatientLookup
    \/ FindSlots
    \/ SelectionParser
    \/ SelectionOracleFails
    \/ Confirmation
    \/ EmailCollection
    \/ EmailOracleFails
    \/ ApplyWrites

\* app.invoke is a synchronous call: once a turn is under way its steps are
\* taken until it returns or raises; only the user's next prompt may never come
SpecTurns == Init /\ [][Next]_vars /\ WF_vars(Workflow)

\* the nodes of the workflow
Nodes ==
    {"greeting", "information_confirmation", "patient_lookup", "find_slots",
     "selection_parser", "confirmation", "email_collection"}

\* C33: every user turn terminates: once a user message is appended, the
\* router and the handlers reach a suspension (END), having entered at most
\* four handlers, whatever the oracles, the lookup and the booking answer:
\* a turn under way has entered between one and four handlers and is at a
\* node that runs or at the routing that follows it, never anywhere else.
C33_TurnTerminates ==
    /\ hops <= 4
    /\ pc \in {"idle", "run", "apply"}
    /\ pc = "idle" => hops = 0 /\ node = END
    /\ pc # "idle" => hops >= 1 /\ node \in Nodes

\* under way, a turn comes to its end
C33_TurnsEnd == []<>(pc = "idle")

\* a turn has entered its fourth handler: greeting completed the details with
\* a message that confirmation read as a yes, the lookup ran, and find_slots runs
C33_Witness ==
    /\ hops = 4
    /\ Running("find_slots")

\* the stages a conversation rests at between turns
RestingStages ==
    {"greeting", "information_confirmation", "selection_parser", "email_collection",
     "completed"}

\* C34: whenever a turn suspends and control returns to the user,
\* conversation_stage is one of greeting, information_confirmation,
\* selection_parser, email_collection, completed; a turn never ends with the
\* stage at patient_lookup, find_slots or confirmation.
C34_RestingStages ==
    pc = "idle" => StageOf(agent_state) \in RestingStages

\* a turn in which the selection was ambiguous has listed the slots again
\* and rests at selection_parser
C34_Witness ==
    /\ pc = "idle"
    /\ agent_state.conversation_stage = Some("selection_parser")
    /\ \E i \in 1..Len(agent_state.messages) :
        /\ agent_state.messages[i].kind = "ambiguous"
        /\ i < Len(agent_state.messages)

\* a turn ends in this step without an exception: the node's writes are
\* applied and the edge leads to END
TurnEnds == pc = "apply" /\ pc' = "idle"

\* C35: any user turn that starts in a stage other than completed and raises
\* no exception appends at least one assistant message, and ends with an
\* assistant-authored message last in the workflow's message log. (During the
\* turn ui_messages is the log the turn was started with, the user's message
\* its last; the workflow's log grows at its end only, by what a node appends
\* and by the reducer's repeat of the log, so its last message is another
\* than the user's exactly when a node of the turn has appended one.)
C35_TurnGetsReply ==
    [][TurnEnds /\ StageOf(agent_state) # "completed" =>
        /\ LastRole(agent_state') = "assistant"
        /\ LastRole([messages |-> ui_messages]) = "user"
        /\ SubSeq(agent_state'.messages, 1, Len(ui_messages)) = ui_messages
        /\ Len(agent_state'.messages) > Len(ui_messages)
        /\ \E i \in (Len(ui_messages) + 1)..Len(agent_state'.messages) :
                agent_state'.messages[i].role = "assistant"]_vars

\* a turn has ended on the reply to the patient's e-mail address
C35_Witness ==
    /\ pc = "idle"
    /\ agent_state.conversation_stage = Some("completed")
    /\ agent_state.patient_email # None
    /\ LastRole(agent_state) = "assistant"

\* ------------------------------------------------------------ C36
\* the stages a conversation is at once it holds an appointment
BookedStages == {"email_collection", "completed"}

\* C36: a conversation books at most once. A step that adds to the booking log
\* adds one record, is taken by a conversation that holds no appointment_id,
\* and leaves it holding one; an appointment_id, once held (by the running
\* state or by the result the session keeps), is the same after every step, and
\* the stage is then email_collection or completed. So no second record
\* follows the first.
C36_OneBooking ==
    [][/\ appointments' # appointments =>
            /\ appointments' = Append(appointments, appointments'[Len(appointments')])
            /\ state.appointment_id = None
            /\ agent_state.appointment_id = None
            /\ state'.appointment_id =
                    Some(appointments'[Len(appointments')].appointment_id)
       /\ state.appointment_id # None =>
            /\ state'.appointment_id = state.appointment_id
            /\ StageOf(state') \in BookedStages
       /\ agent_state.appointment_id # None =>
            /\ agent_state'.appointment_id = agent_state.appointment_id
            /\ state'.appointment_id = agent_state.appointment_id
            /\ StageOf(agent_state') \in BookedStages]_vars

\* the conversation was taken to its end after its one booking, the log
\* holding an earlier conversation's record and its own
C36_Witness ==
    /\ pc = "idle"
    /\ StageOf(agent_state) = "completed"
    /\ agent_state.appointment_id # None
    /\ Len(appointments) = 2
    /\ appointments[2].appointment_id = Val(agent_state.appointment_id)

\* ------------------------------------------------------------ C37
\* the places of the log s holds where the summary of its patient_info, as it
\* is now, is displayed
Displays(s) ==
    { i \in DOMAIN s.messages :
        /\ s.messages[i].kind = "confirm_info"
        /\ s.messages[i].content[2] = SummaryOf(Val(s.patient_info)) }

\* C37: patient_lookup is entered only after the summary of the current
\* patient_info has been displayed and the user has answered it: whenever
\* patient_lookup is about to run, the log holds a display of the current
\* values and, after it, the user's affirmative reply as its last message.
C37_ConfirmationPrecedesLookup ==
    Running("patient_lookup") =>
        \E i \in Displays(state) :
            /\ i < Len(state.messages)
            /\ state.messages[Len(state.messages)].role = "user"
            /\ IsAffirmative(LastUserMessageLowered(state))

\* what the code does ensure: patient_lookup follows a user message holding
\* an affirmative keyword, whether or not a summary was displayed before it
C37_LookupFollowsKeyword ==
    Running("patient_lookup") =>
        /\ state.messages[Len(state.messages)].role = "user"
        /\ IsAffirmative(LastUserMessageLowered(state))
        /\ is_patient_info_complete(Val(state.patient_info))

\* patient_lookup is about to run and no summary was ever displayed
C37_NeverDisplayed ==
    /\ Running("patient_lookup")
    /\ \A i \in DOMAIN state.messages : state.messages[i].kind # "confirm_info"

\* ------------------------------------------------------------ C38
\* s is the state of a conversation that has booked and given its address
BookedOut(s) ==
    /\ s.appointment_id # None
    /\ s.chosen_slot # None
    /\ s.patient_email # None

\* s is the state of a conversation that found no slot
NoSlotsFound(s) ==
    /\ s.appointment_id = None
    /\ s.available_slots = Some(<<>>)

\* C38: completed is entered only from find_slots with an empty slot list or
\* from email_collection with an extracted email. Wherever the stage is
\* completed, in the running state or in the result the session keeps,
\* either appointment_id, chosen_slot and patient_email are all set, or
\* appointment_id is unset and available_slots is the empty list; and the
\* node that has just returned with the stage at completed is find_slots,
\* having found no slot, or email_collection, having set patient_email.
C38_CompletedEntries ==
    /\ \A s \in {state, agent_state} :
            StageOf(s) = "completed" => BookedOut(s) \/ NoSlotsFound(s)
    /\ pc = "apply" /\ StageOf(state) = "completed" =>
            \/ node = "find_slots" /\ NoSlotsFound(state)
            \/ node = "email_collection" /\ BookedOut(state)

\* the conversation has ended at find_slots, which found no slot
C38_Witness ==
    /\ pc = "idle"
    /\ StageOf(agent_state) = "completed"
    /\ NoSlotsFound(agent_state)
    /\ agent_state.messages[Len(agent_state.messages)].kind = "no_slots"

\* the conversation has ended at email_collection, after its booking
C38_BookedOutReached ==
    /\ pc = "idle"
    /\ StageOf(agent_state) = "completed"
    /\ BookedOut(agent_state)
    /\ agent_state.messages[Len(agent_state.messages)].kind = "all_set"

\* ------------------------------------------------------------ C39
\* a turn ends without an exception: app.invoke has returned and app.py has
\* taken its result into the session
TurnDone ==
    /\ pc' = "idle"
    /\ errors' = errors
    /\ pc = "apply" \/ turns' # turns

\* C39: after each turn processed without an exception the session's log
\* holds every assistant message the workflow appended in the turn, in order
\* and once, also where an equal message is already in the log: the session's
\* log ends with the reply the workflow's log ends with, and the two logs are
\* equal.
C39_LogsInSync ==
    [][TurnDone =>
        /\ LastRole(agent_state') = "assistant" =>
                /\ Len(ui_messages') > Len(ui_messages)
                /\ ui_messages'[Len(ui_messages')]
                        = agent_state'.messages[Len(agent_state'.messages)]
        /\ ui_messages' = agent_state'.messages]_vars

\* a turn has ended without an exception and the reply the workflow appended
\* is not shown: the session's log ends with the user's message
C39_ReplyDropped ==
    /\ pc = "idle"
    /\ errors = 0
    /\ turns >= 1
    /\ LastRole(agent_state) = "assistant"
    /\ LastRole([messages |-> ui_messages]) = "user"

\* the first turn has ended and the workflow's log holds the session's log
\* twice over
C39_LogRepeated ==
    /\ pc = "idle"
    /\ errors = 0
    /\ turns = 1
    /\ agent_state.messages = ui_messages \o ui_messages

\* what the code does ensure: every message of the workflow's log is in the
\* session's log, and no assistant message of the session's log equals an
\* earlier message of it
C39_EveryMessageOnce ==
    pc = "idle" /\ errors = 0 =>
        /\ \A i \in DOMAIN agent_state.messages :
                MsgIn(agent_state.messages[i], ui_messages)
        /\ \A i, j \in DOMAIN ui_messages :
                i < j /\ ui_messages[j].role = "assistant"
                    => ~MsgEq(ui_messages[i], ui_messages[j])

\* ------------------------------------------------------------ C40
\* the doctor a listed slot is with: what its text holds before " on "
RECURSIVE DoctorOf(_)
DoctorOf(slot) ==
    IF slot = <<>> \/ Head(slot) = " on " THEN <<>>
    ELSE <<Head(slot)>> \o DoctorOf(Tail(slot))

\* the slot is with the doctor the conversation's patient_info prefers
WithPreferred(slot, s) ==
    \E i \in DOMAIN DoctorOf(slot) :
        Some(DoctorOf(slot)[i]) = Val(s.patient_info).preferred_doctor

\* C40: every slot find_slots lists, and so every chosen_slot and every record
\* the conversation books, is with the doctor recorded in
\* patient_info.preferred_doctor, whom the listing message names.
C40_SlotsMatchPreference ==
    \A s \in {state, agent_state} :
        s.patient_info # None =>
            /\ s.available_slots # None =>
                    \A i \in DOMAIN Val(s.available_slots) :
                        WithPreferred(Val(s.available_slots)[i], s)
            /\ s.chosen_slot # None => WithPreferred(Val(s.chosen_slot), s)
            /\ \A i \in DOMAIN appointments :
                    Some(appointments[i].appointment_id) = s.appointment_id
                        => Some(appointments[i].doctor_name[Len(appointments[i].doctor_name)])
                                = Val(s.patient_info).preferred_doctor

\* find_slots has listed, under the preferred doctor's name, a slot of
\* another doctor among the slots shown
C40_OtherDoctorListed ==
    /\ pc = "apply"
    /\ node = "find_slots"
    /\ state.messages[Len(state.messages)].kind = "slots"
    /\ state.messages[Len(state.messages)].content[4]
            = Val(Val(state.patient_info).preferred_doctor)
    /\ \E i \in DOMAIN ShownOf(state) : ~WithPreferred(ShownOf(state)[i], state)

\* the slot the conversation chose is another doctor's
C40_OtherDoctorChosen ==
    /\ Running("confirmation")
    /\ ~WithPreferred(Val(state.chosen_slot), state)

====
